---- MODULE Spec2Model ----
(***************************************************************************)
(* Verification model of the interplanetary-sim spacecraft core:          *)
(*   - BaseSpacecraft manoeuvre-node queue and burn execution             *)
(*     (src/simulation/spacecraft/BaseSpacecraft.js),                     *)
(*   - SpacecraftSystems.executeBurn and its wall-clock setTimeout,       *)
(*   - SpacecraftControlPanel node editing,                               *)
(*   - SpacecraftSystems attitude control (reaction wheels / RCS).        *)
(*                                                                         *)
(* Units.  Simulated time is in seconds.  Delta-V magnitudes are in units *)
(* of 0.1 km/s.  Masses are in kg.  Battery charge is in kWh.  Floating   *)
(* point results are rounded to these units; Math.exp is tabulated for    *)
(* the delta-V values the model draws.                                    *)
(***************************************************************************)
EXTENDS Integers, Sequences, FiniteSets, TLC

(***************************************************************************)
(* Bounds of the model                                                    *)
(***************************************************************************)
MaxNodes == 2        \* manoeuvre nodes created over one run
MaxQueue == 2        \* manoeuvre nodes queued at one time
MaxTime == 2         \* largest timeFromNow handed to addManoeuvreNode
MaxDt == 2           \* largest tick length (seconds) of one update

(***************************************************************************)
(* Program constants                                                      *)
(***************************************************************************)
DefaultMass == 1000           \* SPACECRAFT_DEFAULTS.mass
DefaultFuel == 500            \* config.fuel || 500
DefaultThrust == 50000        \* config.thrust || 50000
DefaultIsp == 350             \* config.isp || 350
DefaultBatteryCapacity == 100 \* config.batteryCapacity || 100
MinBurnBattery == 10          \* executeBurn: batteryCharge < 10
DefaultNodeTime == 86400      \* updateActiveNode: parseFloat(...) || 86400
BaseloadW == 500
PropulsionW == 2000
CommunicationsW == 800
InstrumentsW == 300
SolarConstant == 1361
DefaultPanelArea == 20
DefaultFuelMass == 500        \* SPACECRAFT_DEFAULTS.fuelMass, kg
DefaultExhaustVelocity == 3000 \* SPACECRAFT_DEFAULTS.exhaustVelocity, m/s
DefaultThrustPower == 50000   \* SPACECRAFT_DEFAULTS.thrustPower, N
MaxMomentum == 50             \* reactionWheels.maxMomentum, Nms
Deadband == 10                \* updateAttitudeControl: angle > 0.01, mrad
DefaultRcsFuel == 5000        \* config.rcsFuel || 50 (kg), in units of 0.01 kg

VARIABLES
  manoeuvreNodes,      \* BaseSpacecraft.manoeuvreNodes: sequence of node records
  executingManoeuvre,  \* BaseSpacecraft.executingManoeuvre (NoManoeuvre = null)
  throttle,            \* systems.propulsion.main.throttle (0 or 1)
  ignitionsUsed,       \* systems.propulsion.main.ignitionsUsed
  ignitions,           \* systems.propulsion.main.ignitions
  fuel,                \* systems.propulsion.main.fuel
  batteryCharge,       \* systems.power.batteryCharge
  batteryCapacity,     \* systems.power.batteryCapacity
  inContact,           \* systems.comms.inContact
  timers,              \* pending setTimeout callbacks of executeBurn, by node id
  nextId,              \* identity of the next ManoeuvreNode object
  attitude,            \* systems.attitude: mode, orientation, targetOrientation,
                       \* reactionWheels.momentum, rcs.fuel
  health,              \* systems.health.degradation, in units of 0.1 %
  basic,               \* a second spacecraft, of type 'basic' (no systems)
  mission,             \* missionPhase and targetBody of the enhanced spacecraft
  factory,             \* the spacecraft SpacecraftFactory created, and its last call
  power,               \* power.consumers.instruments and power.currentConsumption
  inspection,          \* a systems snapshot and what checkSystemConstraints returned
  orbit,               \* a state vector and the orbital elements computed from it
  transfer,            \* the last two results of calculateHohmannTransfer
  clock,               \* the TimeController: date, pause, time scale, events
  sim,                 \* the simulation: spacecraft list and selection
  hist                 \* history record used only by the properties

\* the state outside the manoeuvring spacecraft
outerVars == <<inspection, orbit, transfer, clock, sim>>

vars == <<manoeuvreNodes, executingManoeuvre, throttle, ignitionsUsed,
          ignitions, fuel, batteryCharge, batteryCapacity, inContact,
          timers, nextId, attitude, health, basic, mission, factory, power,
          hist, outerVars>>

(***************************************************************************)
(* Generic helpers                                                        *)
(***************************************************************************)
Max(a, b) == IF a >= b THEN a ELSE b
Min(a, b) == IF a <= b THEN a ELSE b
Abs(a) == IF a < 0 THEN -a ELSE a
\* smallest integer >= a / b, for a >= 0 and b > 0
CeilDiv(a, b) == (a + b - 1) \div b
\* a / b rounded to the nearest integer, for a >= 0 and b > 0
RoundDiv(a, b) == (2 * a + b) \div (2 * b)
\* a / b truncated toward zero, as a change below the unit kept is dropped
TruncDiv(a, b) == IF a >= 0 THEN a \div b ELSE -((-a) \div b)

(***************************************************************************)
(* Manoeuvre nodes (ManoeuvreNode.js)                                     *)
(***************************************************************************)
\* delta-V magnitudes a node may be given, in units of 0.1 km/s
DeltaVChoices == {0, 1, 20}

\* Math.exp(deltaV / exhaustVelocity) x 10^4 for Isp 350 s
\* (exhaust velocity 3433.5 m/s), tabulated for DeltaVChoices
MassRatioE4(deltaV) ==
  CASE deltaV = 0 -> 10000
    [] deltaV = 1 -> 10296
    [] deltaV = 20 -> 17905

\* SpacecraftSystems.calculateFuelRequired: dryMass * (massRatio - 1), in kg,
\* rounded up so that the comparison with an integer fuel load is exact
calculateFuelRequired(deltaV, dryMass) ==
  CeilDiv(dryMass * (MassRatioE4(deltaV) - 10000), 10000)

\* ManoeuvreNode.calculateBurnParameters: fuelRequired = totalMass * (1 - 1/massRatio)
\* in units of 0.1 kg, burnDuration = fuelRequired / (thrust / (isp * 9.81)) in s
calculateBurnParameters(deltaV, totalMass) ==
  IF deltaV = 0
  THEN [burnDuration |-> 0, fuelRequired |-> 0]
  ELSE LET fuelReq == RoundDiv(totalMass * 10 * (MassRatioE4(deltaV) - 10000),
                               MassRatioE4(deltaV))
           exhaust == (DefaultIsp * 981) \div 100
       IN [burnDuration |-> RoundDiv(fuelReq * exhaust, DefaultThrust * 10),
           fuelRequired |-> fuelReq]

\* history: the simulated time left until the moment a node was asked for;
\* kept only by the specification that follows the nodes' due times
DueIn(t) == IF hist.track THEN Max(0, t) ELSE 0

\* new ManoeuvreNode(spacecraft, timeFromNow): deltaV is the zero vector and
\* the burn parameters are 0.  due is a history field, not program state.
\* ManoeuvreNode.propagateOrbit(position, velocity, time): the position is
\* the direction of r0 scaled to the orbit's radius a(1 - e cos E) at mean
\* anomaly n * time (calculateOrbitalElements takes M0 = 0), the velocity is
\* v0 unchanged.  The spacecraft's own state is held fixed here, so the
\* result is named by the time alone: on an eccentric orbit the radius
\* grows with the time over the first half period, and two different times
\* give two different positions.
propagateOrbit(time) == [position |-> [radiusAfter |-> time], velocity |-> "v0"]

\* the ManoeuvreNode constructor; predicted is null until updatePrediction
NoPrediction == [position |-> [radiusAfter |-> -1], velocity |-> "null"]

\* ManoeuvreNode.updatePrediction(): predictedPosition and predictedVelocity
\* from the propagation over timeFromNow.  No handler reads the prediction
\* (only the trajectory preview is drawn from it), so it is kept only by the
\* specification that follows the predictions and left null elsewhere.
updatePrediction(node) ==
  IF hist.predict
  THEN [node EXCEPT !.predicted = propagateOrbit(node.timeFromNow)]
  ELSE node

NewNode(id, timeFromNow) ==
  updatePrediction(
    [id |-> id, timeFromNow |-> timeFromNow, deltaV |-> 0,
     burnDuration |-> 0, fuelRequired |-> 0, due |-> DueIn(timeFromNow),
     predicted |-> NoPrediction])

\* ManoeuvreNode.setDeltaV: stores the vector and recomputes the burn parameters
setDeltaV(node, deltaV) ==
  LET p == calculateBurnParameters(deltaV, DefaultMass + fuel)
  IN [node EXCEPT !.deltaV = deltaV, !.burnDuration = p.burnDuration,
                  !.fuelRequired = p.fuelRequired]

NodeIds(nodes) == {nodes[i].id : i \in 1..Len(nodes)}

\* Array.prototype.indexOf on the node objects (0 when absent)
IndexOf(nodes, id) ==
  IF id \in NodeIds(nodes)
  THEN CHOOSE i \in 1..Len(nodes) : nodes[i].id = id
  ELSE 0

RemoveAt(nodes, i) ==
  [j \in 1..(Len(nodes) - 1) |-> IF j < i THEN nodes[j] ELSE nodes[j + 1]]

\* insertion of one node behind every node that does not compare greater
RECURSIVE InsertSorted(_, _)
InsertSorted(sorted, node) ==
  IF sorted = << >> THEN <<node>>
  ELSE IF Head(sorted).timeFromNow <= node.timeFromNow
       THEN <<Head(sorted)>> \o InsertSorted(Tail(sorted), node)
       ELSE <<node>> \o sorted

\* manoeuvreNodes.sort((a, b) => a.timeFromNow - b.timeFromNow): a stable sort
RECURSIVE SortByTime(_)
SortByTime(nodes) ==
  IF nodes = << >> THEN << >>
  ELSE InsertSorted(SortByTime(SubSeq(nodes, 1, Len(nodes) - 1)), nodes[Len(nodes)])

IsSortedByTime(nodes) ==
  \A i \in 1..(Len(nodes) - 1) : nodes[i].timeFromNow <= nodes[i + 1].timeFromNow

(***************************************************************************)
(* Burn execution (SpacecraftSystems.executeBurn, BaseSpacecraft)         *)
(***************************************************************************)
\* executingManoeuvre = null
NoManoeuvre == [node |-> 0, timeRemaining |-> 0]

\* variant of BurnRejection that looks at the fuel before the ignitions
BurnRejectionFuelFirst(ignUsed, fuelRequired, battery) ==
  IF fuelRequired > fuel THEN "Insufficient fuel"
  ELSE IF ignUsed >= ignitions THEN "No ignitions remaining"
  ELSE IF battery < MinBurnBattery THEN "Insufficient power"
  ELSE "none"

\* the three resource checks of executeBurn, in the order the code makes them
BurnRejection(ignUsed, fuelRequired, battery) ==
  IF ignUsed >= ignitions THEN "No ignitions remaining"
  ELSE IF fuelRequired > fuel THEN "Insufficient fuel"
  ELSE IF battery < MinBurnBattery THEN "Insufficient power"
  ELSE "none"

\* executeBurn(deltaV, duration, spacecraft) called for node `node` on the
\* machine state m.  A success sets the throttle, uses one ignition and
\* schedules the setTimeout callback (kept in timers under the node's id).
\* m.result carries the value returned.
executeBurn(m, node) ==
  LET fuelRequired == calculateFuelRequired(node.deltaV, DefaultMass)
      reason == BurnRejection(m.ignitionsUsed, fuelRequired, m.battery)
  IN IF reason = "none"
     THEN [m EXCEPT !.throttle = 1,
                    !.ignitionsUsed = m.ignitionsUsed + 1,
                    !.timers = m.timers \cup {node.id},
                    !.result = [success |-> TRUE, reason |-> reason]]
     ELSE [m EXCEPT !.result = [success |-> FALSE, reason |-> reason]]

\* BaseSpacecraft.removeManoeuvreNode on the machine state
removeNode(m, id) ==
  LET index == IndexOf(m.nodes, id)
  IN IF index > 0 THEN [m EXCEPT !.nodes = RemoveAt(m.nodes, index)] ELSE m

\* variant of startManoeuvre that leaves a rejected node in the queue
startManoeuvreKeepNode(m, node) ==
  CHOOSE after \in
    {IF ~r.result.success
     THEN [r EXCEPT !.hist.failed = @ \cup {node.id}]
     ELSE [r EXCEPT !.exec = [node |-> node.id, timeRemaining |-> node.burnDuration]]
       : r \in {executeBurn(m, node)}} : TRUE

\* BaseSpacecraft.startManoeuvre(node).  History: failed collects the nodes
\* whose burn was rejected.
startManoeuvre(m, node) ==
  CHOOSE after \in
    {IF ~r.result.success
     THEN [removeNode(r, node.id) EXCEPT !.hist.failed = @ \cup {node.id}]
     ELSE [r EXCEPT !.exec = [node |-> node.id, timeRemaining |-> node.burnDuration]]
       : r \in {executeBurn(m, node)}} : TRUE

\* variant of completeManoeuvre that leaves the throttle open
completeManoeuvreThrottleOpen(m) ==
  [removeNode(m, m.exec.node) EXCEPT !.exec = NoManoeuvre]

\* BaseSpacecraft.completeManoeuvre()
completeManoeuvre(m) ==
  LET r == removeNode([m EXCEPT !.throttle = 0], m.exec.node)
  IN [r EXCEPT !.exec = NoManoeuvre]

\* variant of MayCountDown without the test of executingManoeuvre
MayCountDownUnguarded(m) == Len(m.nodes) > 0

\* the guard of the first block of checkManoeuvreExecution
MayCountDown(m) == m.exec = NoManoeuvre /\ Len(m.nodes) > 0

\* first block of checkManoeuvreExecution: count the head node down and
\* start it when its countdown has expired
countDownHead(m, dt) ==
  IF MayCountDown(m)
  THEN LET nextNode == [m.nodes[1] EXCEPT !.timeFromNow = @ - dt]
           m1 == [m EXCEPT !.nodes[1] = nextNode]
       IN IF nextNode.timeFromNow <= 0 THEN startManoeuvre(m1, nextNode) ELSE m1
  ELSE m

\* second block of checkManoeuvreExecution: advance the executing burn
advanceBurn(m, dt) ==
  IF m.exec # NoManoeuvre
  THEN LET m1 == [m EXCEPT !.exec.timeRemaining = @ - dt]
       IN IF m1.exec.timeRemaining <= 0 THEN completeManoeuvre(m1) ELSE m1
  ELSE m

\* BaseSpacecraft.checkManoeuvreExecution(dt): the first block, then the
\* second block on the state the first block left
checkManoeuvreExecution(m, dt) ==
  CHOOSE after \in {advanceBurn(m1, dt) : m1 \in {countDownHead(m, dt)}} : TRUE

\* BaseSpacecraft.calculateManoeuvreThrust as called from update: the id of
\* the node whose burn accelerates the spacecraft in this tick (0 = no thrust)
manoeuvreThrustNode(m) ==
  IF m.exec = NoManoeuvre \/ m.throttle = 0 THEN 0 ELSE m.exec.node

(***************************************************************************)
(* Power (SpacecraftSystems.updatePowerSystem), battery in kWh            *)
(***************************************************************************)
\* currentConsumption: baseload plus the loads whose flag is set
currentConsumption(thr, contact) ==
  BaseloadW + (IF thr > 0 THEN PropulsionW ELSE 0)
            + (IF contact THEN CommunicationsW ELSE 0)

\* power as the constructor leaves it: consumers.instruments and
\* currentConsumption.  History: sampled holds what the last
\* updatePowerSystem found (thrusting, in contact, the instruments load).
NewPower ==
  [instruments |-> InstrumentsW, currentConsumption |-> 0,
   sampled |-> [thrusting |-> FALSE, inContact |-> FALSE, instruments |-> 0]]

\* the consumption part of updatePowerSystem.  No handler reads
\* currentConsumption (it is shown to the user), so it is kept only by the
\* specification that follows the power consumers.
updateConsumption(p, thr, contact) ==
  IF hist.meter
  THEN [p EXCEPT !.currentConsumption = currentConsumption(thr, contact),
                 !.sampled = [thrusting |-> thr > 0, inContact |-> contact,
                              instruments |-> p.instruments]]
  ELSE p

\* currentGeneration = solarIntensity * solarPanelArea * panelEfficiency, with
\* panelEfficiency = 0.3 * (1 - degradation.solarPanels / 100)
currentGeneration(solarIntensity) ==
  (solarIntensity * DefaultPanelArea * 3 * (1000 - health.solarPanels)) \div 10000

\* powerBalance * dt / 1000 with dt = deltaTime / 3600 hours, in kWh: the
\* whole hours of the tick and the rest of it
EnergyOver(balance, deltaTime) ==
  TruncDiv(balance * (deltaTime \div 3600), 1000)
    + TruncDiv(balance * (deltaTime % 3600), 3600000)

\* maxCapacity = batteryCapacity * (1 - degradation.battery / 100)
maxCapacity(h) == (batteryCapacity * (1000 - h.battery)) \div 1000

\* updateSystemHealth(deltaTime): per year 0.5 % of solar-panel efficiency,
\* 2 % of battery capacity and 1 % of reaction-wheel performance go; days are
\* deltaTime / 86400
updateSystemHealth(h, deltaTime) ==
  LET days == deltaTime \div 86400
  IN [solarPanels |-> h.solarPanels + TruncDiv(5 * days, 365),
      battery |-> h.battery + TruncDiv(20 * days, 365),
      reaction_wheels |-> h.reaction_wheels + TruncDiv(10 * days, 365)]

\* batteryCharge after updatePowerSystem(dt): the balance in W over dt seconds
\* is balance * dt / 3.6e6 kWh, clamped to [0, maxCapacity] with the battery
\* degradation the call finds
updatePowerSystem(battery, thr, contact, solarIntensity, dt) ==
  LET balance == currentGeneration(solarIntensity) - currentConsumption(thr, contact)
      charged == battery + EnergyOver(balance, dt)
  IN Max(0, Min(maxCapacity(health), charged))

(***************************************************************************)
(* Attitude control (SpacecraftSystems.updateAttitudeControl)             *)
(*                                                                         *)
(* Rotations are taken about one axis.  Angles are in mrad, with a quarter *)
(* turn of 1571 mrad and a full turn of 6284 mrad; the reaction-wheel      *)
(* momentum is the signed component along that axis in mNms; torques are   *)
(* in uNm; the RCS fuel is in units of 0.01 kg.                            *)
(***************************************************************************)
AttitudeModes ==
  {"INERTIAL", "PROGRADE", "RETROGRADE", "RADIAL", "NORMAL", "SUN_POINTING"}

\* directions the velocity and position vectors may have: quarter turns
DirectionChoices == {0, 1571, 3142, 4713}

\* an angle brought into 0..6283 (% takes the sign of the divisor)
WrapAngle(a) == a % 6284

\* calculateTargetAttitude: setFromUnitVectors towards the velocity or the
\* position (dir), or away from it; the switch has no case for NORMAL, which
\* leaves targetOrientation as it was
calculateTargetAttitude(att, dir) ==
  CASE att.mode \in {"PROGRADE", "RADIAL"} ->
         [att EXCEPT !.targetOrientation = dir]
    [] att.mode \in {"RETROGRADE", "SUN_POINTING"} ->
         [att EXCEPT !.targetOrientation = WrapAngle(dir + 3142)]
    [] OTHER -> att

\* targetOrientation * orientation^-1 as a signed rotation in -3141..3142;
\* getAxisAngle gives its magnitude as the angle and its sign as the axis
quaternionError(att) ==
  LET d == WrapAngle(att.targetOrientation - att.orientation)
  IN IF d > 3142 THEN d - 6284 ELSE d

\* the 80 % threshold of applyTorque in mNms: maxMomentum * 0.8
SaturationThreshold == (MaxMomentum * 1000 * 8) \div 10

\* variant of desaturateReactionWheels that fires no thruster
desaturateWithoutRCS(att, dt) ==
  IF att.rcsFuel <= 0 THEN att
  ELSE [att EXCEPT !.momentum = TruncDiv(@ * 99, 100)]

\* desaturateReactionWheels(deltaTime): nothing with an empty RCS store, else
\* 0.01 kg/s of RCS fuel and 1 % of the wheel momentum go
desaturateReactionWheels(att, dt) ==
  IF att.rcsFuel <= 0 THEN att
  ELSE [att EXCEPT !.rcsFuel = @ - dt,
                   !.momentum = TruncDiv(@ * 99, 100)]

\* applyTorque(torque, deltaTime): below the threshold the wheels take
\* torque * dt and the orientation turns by |torque * 0.1| * dt about the
\* torque's axis; at or above it the wheels are desaturated
applyTorque(att, torque, dt) ==
  IF Abs(att.momentum) < SaturationThreshold
  THEN [att EXCEPT !.momentum = @ + TruncDiv(torque * dt, 1000),
                   !.orientation =
                      WrapAngle(@ + TruncDiv((torque \div 10) * dt, 1000))]
  ELSE desaturateReactionWheels(att, dt)

\* updateAttitudeControl(spacecraft, deltaTime): a proportional controller
\* with a deadband of 0.01 rad and a gain of 0.1 Nm/rad
updateAttitudeControl(att, dir, dt) ==
  IF att.mode # "INERTIAL"
  THEN LET a == calculateTargetAttitude(att, dir)
           angle == quaternionError(a)
       IN IF Abs(angle) > Deadband THEN applyTorque(a, angle * 100, dt) ELSE a
  ELSE att

(***************************************************************************)
(* Basic spacecraft (BaseSpacecraft without systems): thrust, integration *)
(* and trajectory                                                         *)
(*                                                                         *)
(* Motion is taken along one axis.  Fixed point: velocity (km/s in the     *)
(* program) is kept in m/s, position (AU in the program) in m, the         *)
(* acceleration in m/s^2, fuelMass in g.  NaN stands for every non-finite  *)
(* number.                                                                 *)
(***************************************************************************)
TrailLength == 2              \* trajectory capacity followed (VISUAL_SETTINGS.trailLength)
MaxTicks == 4                 \* updates of the basic spacecraft followed

\* a number of the program that may be non-finite: <<n>> for the finite n,
\* << >> for NaN and the infinities
NaN == << >>
Num(n) == <<n>>
isFinite(x) == Len(x) = 1
\* IEEE addition and multiplication: a non-finite operand gives a non-finite
\* result
Plus(a, b) == IF isFinite(a) /\ isFinite(b) THEN Num(a[1] + b[1]) ELSE NaN
Times(a, b) == IF isFinite(a) /\ isFinite(b) THEN Num(a[1] * b[1]) ELSE NaN

\* fuelBurnRate = thrustPower / (exhaustVelocity * 9.81), in g/s
fuelBurnRate ==
  (DefaultThrustPower * 100) \div ((DefaultExhaustVelocity * 981) \div 1000)

\* variant of calculateThrustAcceleration that burns without the clamp
calculateThrustAccelerationUnclamped(b, dt) ==
  IF b.fuelMass <= 0
  THEN [b EXCEPT !.engineOn = FALSE, !.acceleration = 0]
  ELSE LET left == b.fuelMass - fuelBurnRate * dt
       IN [b EXCEPT !.fuelMass = left,
                    !.acceleration =
                       b.thrustVector *
                         ((DefaultThrustPower * 1000) \div (DefaultMass * 1000 + left))]

\* calculateThrustAcceleration(dt): burns min(fuelBurnRate * dt, fuelMass) and
\* gives thrustPower / (mass + fuelMass) along the thrust vector; the vector
\* returned is handed on in the acceleration field
calculateThrustAcceleration(b, dt) ==
  IF b.fuelMass <= 0
  THEN [b EXCEPT !.engineOn = FALSE, !.acceleration = 0]
  ELSE LET fuelUsed == Min(fuelBurnRate * dt, b.fuelMass)
           left == b.fuelMass - fuelUsed
       IN [b EXCEPT !.fuelMass = left,
                    !.acceleration =
                       b.thrustVector *
                         ((DefaultThrustPower * 1000) \div (DefaultMass * 1000 + left))]

\* calculateTotalAcceleration(bodies, dt): the gravitational acceleration,
\* which skips every non-finite term, plus the thrust while the engine is on
\* and fuel is left
calculateTotalAcceleration(b, gravity, dt) ==
  IF b.engineOn /\ b.fuelMass > 0
  THEN LET t == calculateThrustAcceleration(b, dt)
       IN [t EXCEPT !.acceleration = gravity + t.acceleration]
  ELSE [b EXCEPT !.acceleration = gravity]

\* variant of integrateMotion that moves the position with the velocity the
\* tick found (explicit Euler)
integrateMotionExplicit(b, dt) ==
  [b EXCEPT !.velocity = Plus(@, Num(b.acceleration * dt)),
            !.position = Plus(@, Times(b.velocity, Num(dt)))]

\* integrateMotion(dt): velocity += acceleration * dt / 1000 (km/s), then
\* position += velocity * dt / AU_TO_KM (AU) with the velocity just updated
integrateMotion(b, dt) ==
  LET velocity == Plus(b.velocity, Num(b.acceleration * dt))
  IN [b EXCEPT !.velocity = velocity,
               !.position = Plus(@, Times(velocity, Num(dt)))]

\* variant of pushPoint that drops the newest point of a full array
pushPointDropNewest(trajectory, point) ==
  LET pushed == Append(trajectory, point)
  IN IF Len(pushed) > TrailLength THEN trajectory ELSE pushed

\* trajectory.push(position.clone()), then trajectory.shift() if the array is
\* longer than maxTrajectoryPoints
pushPoint(trajectory, point) ==
  LET pushed == Append(trajectory, point)
  IN IF Len(pushed) > TrailLength THEN Tail(pushed) ELSE pushed

\* variant of updateTrajectory that warns on every invalid tick
updateTrajectoryWarnAlways(b) ==
  IF ~isFinite(b.position)
  THEN [b EXCEPT !.warnings = @ + 1, !.warnedInvalidPosition = TRUE,
                 !.skipped = @ + 1]
  ELSE [b EXCEPT !.warnedInvalidPosition = FALSE,
                 !.pushed = Append(@, b.position),
                 !.trajectory = pushPoint(@, b.position)]

\* updateTrajectory(): a non-finite position is skipped with one warning per
\* run of invalid ticks; a finite one is pushed and the oldest point shifted
\* out once the array is longer than maxTrajectoryPoints.  History: warnings
\* counts the console warnings, skipped the updates that recorded nothing,
\* pushed lists every point pushed.
updateTrajectory(b) ==
  IF ~isFinite(b.position)
  THEN IF ~b.warnedInvalidPosition
       THEN [b EXCEPT !.warnings = @ + 1, !.warnedInvalidPosition = TRUE,
                      !.skipped = @ + 1]
       ELSE [b EXCEPT !.skipped = @ + 1]
  ELSE [b EXCEPT !.warnedInvalidPosition = FALSE,
                 !.pushed = Append(@, b.position),
                 !.trajectory = pushPoint(@, b.position)]

\* BaseSpacecraft.update(deltaTime, bodies) of a spacecraft without systems:
\* elapsed time, acceleration, integration, trajectory.  History: ticks
\* counts the updates.
updateBasic(b, gravity, dt) ==
  LET b1 == [b EXCEPT !.missionElapsedTime = @ + dt, !.ticks = @ + 1]
      b2 == calculateTotalAcceleration(b1, gravity, dt)
      b3 == integrateMotion(b2, dt)
  IN updateTrajectory(b3)

\* getInfo().engineStatus
engineStatus(b) == IF b.engineOn THEN "ON" ELSE "OFF"

\* the basic spacecraft as the constructor leaves it, for initialState.fuelMass
NewBasic(fuelMass) ==
  [fuelMass |-> fuelMass, engineOn |-> FALSE, thrustVector |-> 0,
   missionElapsedTime |-> 0, position |-> Num(0), velocity |-> Num(0),
   acceleration |-> 0,
   trajectory |-> << >>, warnedInvalidPosition |-> FALSE,
   warnings |-> 0, skipped |-> 0, pushed |-> << >>, ticks |-> 0]

(***************************************************************************)
(* Mission phase (BaseSpacecraft.updateMissionPhase)                      *)
(*                                                                         *)
(* Distances to the target are in tenths of the target's sphere of         *)
(* influence.                                                              *)
(***************************************************************************)
\* the enhanced spacecraft's mission state as the constructor leaves it.
\* History: targetDistance is the distance the last update found (0 = none).
NewMission == [phase |-> "CRUISE", targetBody |-> FALSE, targetDistance |-> 0]

\* updateMissionPhase(): nothing without a target; APPROACH inside the
\* sphere of influence, ENCOUNTER inside ten times it; ESCAPE whenever the
\* heliocentric eccentricity is 1 or more
updateMissionPhase(mi, distance, escaping) ==
  IF ~mi.targetBody THEN mi
  ELSE LET byDistance == IF distance < 10 THEN "APPROACH"
                         ELSE IF distance < 100 THEN "ENCOUNTER"
                         ELSE mi.phase
       IN [mi EXCEPT !.phase = IF escaping THEN "ESCAPE" ELSE byDistance,
                     !.targetDistance = distance]

(***************************************************************************)
(* SpacecraftFactory                                                      *)
(***************************************************************************)
\* the keys of the presets table of createFromPreset
PresetNames == {"probe", "orbiter", "lander", "ionCraft"}

\* the keys of the missionConfigs table of createForMission
MissionTypes == {"mars", "venus", "outerPlanets", "asteroid"}

\* names every object literal inherits from Object.prototype: table[name]
\* finds a function there, which is truthy and has no type and no systemConfig
InheritedNames == {"constructor"}

\* table[name] on an object literal with the given own keys
Lookup(keys, name) ==
  IF name \in keys THEN [found |-> "own", key |-> name]
  ELSE IF name \in InheritedNames THEN [found |-> "inherited", key |-> name]
  ELSE [found |-> "undefined", key |-> name]

\* createBasic / createEnhanced(name, initialState, systemConfig): the
\* spacecraft built from the table entry `config`; "default" stands for
\* defaultSystemConfig alone (systemConfig undefined)
createBasic(config) == [type |-> "basic", config |-> config]
createEnhanced(config) == [type |-> "enhanced", config |-> config]

\* the result of a factory call: the spacecraft returned, or the error thrown
Created(craft) == [threw |-> FALSE, craft |-> <<craft>>]
Thrown == [threw |-> TRUE, craft |-> << >>]

\* createFromPreset(preset): throws when presets[preset] is falsy, else
\* createBasic for type 'basic' and createEnhanced otherwise
createFromPreset(preset) ==
  LET config == Lookup(PresetNames, preset)
  IN IF config.found = "undefined" THEN Thrown
     ELSE IF config.found = "own" /\ preset = "probe"
          THEN Created(createBasic(preset))
     ELSE IF config.found = "own" THEN Created(createEnhanced(preset))
     ELSE Created(createEnhanced("default"))

\* createForMission(missionType):
\* config = missionConfigs[missionType] || missionConfigs.mars
createForMission(missionType) ==
  LET config == Lookup(MissionTypes, missionType)
  IN IF config.found = "undefined" THEN Created(createEnhanced("mars"))
     ELSE IF config.found = "own" THEN Created(createEnhanced(missionType))
     ELSE Created(createEnhanced("default"))

\* no spacecraft created yet.  History: call, arg and threw describe the
\* last factory call.
NewFactory == [fleet |-> << >>, call |-> "none", arg |-> "none", threw |-> FALSE]

(***************************************************************************)
(* Warnings (SpacecraftSystems.checkSystemConstraints)                    *)
(*                                                                         *)
(* The snapshot holds what the call reads: battery in kWh, consumption and *)
(* generation in W, the internal temperature in K, the wheel momentum in   *)
(* mNms and the main fuel in kg.                                           *)
(***************************************************************************)
TempMin == 253
TempMax == 323
LowFuel == 50

\* checkSystemConstraints(): the warnings pushed, in the order of the
\* pushes, and the systems as the call leaves them.  The power warning
\* compares currentConsumption with currentGeneration * 1.5.
checkSystemConstraints(sys) ==
  LET lowBattery == IF sys.batteryCharge * 10 < sys.batteryCapacity * 2
                    THEN <<"LOW BATTERY">> ELSE << >>
      deficit == IF sys.currentConsumption * 2 > sys.currentGeneration * 3
                 THEN <<"POWER DEFICIT">> ELSE << >>
      thermal == IF sys.internalTemp < TempMin \/ sys.internalTemp > TempMax
                 THEN <<"THERMAL VIOLATION">> ELSE << >>
      wheels == IF Abs(sys.momentum) * 10 > MaxMomentum * 1000 * 8
                THEN <<"REACTION WHEELS SATURATING">> ELSE << >>
      lowFuel == IF sys.fuel < LowFuel THEN <<"LOW FUEL">> ELSE << >>
  IN [systems |-> sys,
      warnings |-> lowBattery \o deficit \o thermal \o wheels \o lowFuel]

\* the systems of a new spacecraft before its first update
NewSystems ==
  [batteryCharge |-> DefaultBatteryCapacity,
   batteryCapacity |-> DefaultBatteryCapacity,
   currentConsumption |-> 0, currentGeneration |-> 0, internalTemp |-> 293,
   momentum |-> 0, fuel |-> DefaultFuel]

\* nothing inspected yet.  History: before is the snapshot the last call
\* found, called whether there was a call.
NoInspection ==
  [systems |-> NewSystems, warnings |-> << >>, before |-> NewSystems,
   called |-> FALSE]

(***************************************************************************)
(* Orbital elements (OrbitalMechanics.calculateOrbitalElements)           *)
(*                                                                         *)
(* State vectors lie in one plane: the position is x along the first axis, *)
(* in tenths of an AU, the velocity has a radial and a transverse          *)
(* component in km/s.  Lengths in km are counted in Gm (10^6 km) and mu in *)
(* Gm km^2/s^2, rounded to whole numbers that keep the circular speed at   *)
(* 1 AU a whole number: 1 AU is 150 Gm (149.6), mu is 135000 (132712) and  *)
(* the circular speed at 1 AU is 30 km/s (29.8).  Results are in mAU,      *)
(* thousandths (eccentricity), degrees, days and km^2/s^2.  A number is    *)
(* finite <<n>>, NaN << >>, or an infinity <<sign, 0>>.                    *)
(***************************************************************************)
AuToKm == 150
MuSun == 135000

Infinity == <<1, 0>>
NegInfinity == <<-1, 0>>

Sgn(n) == IF n > 0 THEN 1 ELSE IF n < 0 THEN -1 ELSE 0

\* n / d rounded to the nearest integer, for d # 0
RoundQ(n, d) ==
  IF (n >= 0) = (d > 0) THEN RoundDiv(Abs(n), Abs(d)) ELSE -RoundDiv(Abs(n), Abs(d))

\* IEEE division of two finite numbers: x / 0 is an infinity, 0 / 0 is NaN
Quotient(n, d) ==
  IF d # 0 THEN Num(RoundQ(n, d))
  ELSE IF n = 0 THEN NaN ELSE <<Sgn(n), 0>>

\* IEEE product of a number and a finite number f
Scaled(a, f, unit) ==
  IF isFinite(a) THEN Num(RoundQ(a[1] * f, unit))
  ELSE IF a = NaN \/ f = 0 THEN NaN
  ELSE <<a[1] * Sgn(f), 0>>

\* Math.sqrt on whole numbers below 2^31: the largest k in lo..hi with
\* k * k <= n, by bisection
RECURSIVE SqrtIn(_, _, _)
SqrtIn(n, lo, hi) ==
  IF lo = hi THEN lo
  ELSE LET mid == (lo + hi + 1) \div 2
       IN IF mid * mid <= n THEN SqrtIn(n, mid, hi) ELSE SqrtIn(n, lo, mid - 1)

ISqrt(n) == SqrtIn(n, 0, 46340)

\* the all-zero elements of the two early returns
ZeroElements ==
  [semiMajorAxis |-> Num(0), eccentricity |-> Num(0), inclination |-> Num(0),
   periapsis |-> Num(0), apoapsis |-> Num(0), period |-> Num(0),
   specificEnergy |-> Num(0)]

\* the elements computed past the validation, before safeValue, for
\* x > 0 and finite components.  h = position x velocity is left in
\* AU km/s when the eccentricity vector velocity x h / mu - position/|r| is
\* formed; only hMag is converted to km^2/s.
computedElements(x, vr, vt, mu) ==
  LET r == (x * AuToKm) \div 10
      v2 == vr * vr + vt * vt
      energy2r == v2 * r - 2 * mu
      energy == Quotient(energy2r, 2 * r)
      aKm == Quotient(-(mu * r * 10), energy2r)
      a == Scaled(aKm, 100, AuToKm)
      hz == x * vt
      eRadial == RoundQ(vt * vt * x * 100, mu) - 1000
      eTransverse == RoundQ(vr * vt * x * 100, mu)
      e == ISqrt(eRadial * eRadial + eTransverse * eTransverse)
      i == IF hz = 0 THEN NaN ELSE IF hz > 0 THEN Num(0) ELSE Num(180)
      aGm == IF isFinite(aKm) THEN aKm[1] \div 10 ELSE 0
      period == IF isFinite(aKm) /\ aKm[1] > 0
                THEN Num((ISqrt((aGm * aGm * aGm) \div (mu \div 100)) * 7272) \div 1000)
                ELSE Num(0)
  IN [semiMajorAxis |-> a, eccentricity |-> Num(e), inclination |-> i,
      periapsis |-> Scaled(a, 1000 - e, 1000),
      apoapsis |-> Scaled(a, 1000 + e, 1000),
      period |-> period, specificEnergy |-> energy]

\* safeValue(value): the value when finite, else 0
safeValue(value) == IF isFinite(value) THEN value ELSE Num(0)

\* calculateOrbitalElements(position, velocity, mu): the zero elements for a
\* missing vector, a falsy mu (undefined, NaN or 0), r = 0 or a non-finite
\* length; else every computed element through safeValue
calculateOrbitalElements(position, velocity, mu) ==
  IF ~position.given \/ ~velocity.given \/ mu = NaN \/ mu = Num(0)
  THEN ZeroElements
  ELSE IF \/ position.x = Num(0) \/ ~isFinite(position.x)
          \/ ~isFinite(velocity.radial) \/ ~isFinite(velocity.transverse)
  THEN ZeroElements
  ELSE LET c == computedElements(Abs(position.x[1]), velocity.radial[1],
                                 velocity.transverse[1] * Sgn(position.x[1]),
                                 mu[1])
       IN [f \in DOMAIN c |-> safeValue(c[f])]

\* a spacecraft at rest at the origin, no elements asked for yet.
\* History: mu is the mu of the last call, called the method called.
NoOrbit ==
  [position |-> [given |-> TRUE, x |-> Num(0)],
   velocity |-> [given |-> TRUE, radial |-> Num(0), transverse |-> Num(0)],
   elements |-> ZeroElements, mu |-> NaN, called |-> "none"]

(***************************************************************************)
(* Hohmann transfers (OrbitalMechanics.calculateHohmannTransfer)          *)
(*                                                                         *)
(* Radii are whole AU, speeds m/s, the transfer time days.  mu is the      *)
(* rounded mu of the orbital elements per AU, in (10 m/s)^2 AU, so that    *)
(* the circular speed at 1 AU is 30000 m/s.                                *)
(***************************************************************************)
HohmannMu == (MuSun \div AuToKm) * 10000

\* Math.sqrt of a speed squared given in (10 m/s)^2, in m/s
Speed(squared) == ISqrt(squared * 100)

\* calculateHohmannTransfer with total = dv1 + dv2
calculateHohmannTransferSigned(r1, r2) ==
  LET v1 == Speed(HohmannMu \div r1)
      v_transfer1 == Speed((HohmannMu * 2 * r2) \div (r1 * (r1 + r2)))
      v_transfer2 == Speed((HohmannMu * 2 * r1) \div (r2 * (r1 + r2)))
      v2 == Speed(HohmannMu \div r2)
      dv1 == v_transfer1 - v1
      dv2 == v2 - v_transfer2
  IN [departure |-> dv1, arrival |-> dv2, total |-> dv1 + dv2,
      transferTime |-> ISqrt((r1 + r2) * (r1 + r2) * (r1 + r2) * 4169)]

\* calculateHohmannTransfer(r1, r2): the speeds on the two circular orbits
\* and at the two ends of the transfer ellipse of semi-major axis
\* (r1 + r2) / 2; transferTime = pi * sqrt(a^3 / mu) / 86400, which is
\* sqrt((r1 + r2)^3 * 4169) days for radii in AU
calculateHohmannTransfer(r1, r2) ==
  LET v1 == Speed(HohmannMu \div r1)
      v_transfer1 == Speed((HohmannMu * 2 * r2) \div (r1 * (r1 + r2)))
      v_transfer2 == Speed((HohmannMu * 2 * r1) \div (r2 * (r1 + r2)))
      v2 == Speed(HohmannMu \div r2)
      dv1 == v_transfer1 - v1
      dv2 == v2 - v_transfer2
  IN [departure |-> dv1, arrival |-> dv2, total |-> Abs(dv1) + Abs(dv2),
      transferTime |-> ISqrt((r1 + r2) * (r1 + r2) * (r1 + r2) * 4169)]

\* no transfer computed
NoTransfer ==
  [r1 |-> 0, r2 |-> 0,
   result |-> [departure |-> 0, arrival |-> 0, total |-> 0, transferTime |-> 0]]

\* the results of the last call and of the call before it
NoTransfers == [last |-> NoTransfer, previous |-> NoTransfer]

(***************************************************************************)
(* TimeController: dates are whole days since the start date               *)
(***************************************************************************)
\* insertion of one event behind every event that does not compare greater
RECURSIVE InsertByDate(_, _)
InsertByDate(sorted, event) ==
  IF sorted = << >> THEN <<event>>
  ELSE IF Head(sorted).date <= event.date
       THEN <<Head(sorted)>> \o InsertByDate(Tail(sorted), event)
       ELSE <<event>> \o sorted

\* events.sort((a, b) => a.date - b.date): a stable sort
RECURSIVE SortByDate(_)
SortByDate(events) ==
  IF events = << >> THEN << >>
  ELSE InsertByDate(SortByDate(SubSeq(events, 1, Len(events) - 1)),
                    events[Len(events)])

\* events.filter(event => event.id !== eventId)
RECURSIVE WithoutId(_, _)
WithoutId(events, eventId) ==
  IF events = << >> THEN << >>
  ELSE IF Head(events).id = eventId THEN WithoutId(Tail(events), eventId)
       ELSE <<Head(events)>> \o WithoutId(Tail(events), eventId)

\* scheduleEvent(date, callback): push, then sort.  id is the value of
\* Date.now() + Math.random(); throws tells whether the callback throws.
\* History: key numbers the events in the order they were scheduled.
scheduleEvent(t, date, id, throws) ==
  [t EXCEPT !.events = SortByDate(Append(@, [key |-> t.nextKey, id |-> id,
                                             date |-> date, throws |-> throws])),
            !.nextKey = @ + 1]

\* cancelEvent(eventId).  History: cancelled collects the keys removed.
cancelEvent(t, eventId) ==
  [t EXCEPT !.events = WithoutId(@, eventId),
            !.cancelled = @ \cup {t.events[i].key :
                                    i \in {j \in 1..Len(t.events) :
                                             t.events[j].id = eventId}}]

\* variant of checkEvents without the try/catch: a callback that throws
\* ends the loop after its event has been shifted off the queue
RECURSIVE checkEventsUncaught(_)
checkEventsUncaught(t) ==
  IF Len(t.events) > 0 /\ t.events[1].date <= t.currentDate
  THEN LET event == t.events[1]
           shifted == [t EXCEPT !.events = Tail(@),
                                !.fired = Append(@, [key |-> event.key,
                                                     date |-> event.date,
                                                     at |-> t.currentDate])]
       IN IF event.throws THEN shifted ELSE checkEventsUncaught(shifted)
  ELSE t

\* checkEvents(): while the head of the queue is due, shift it off and call
\* its callback; an exception is caught and logged.  History: fired lists
\* the callbacks called, with the date that called them.
RECURSIVE checkEvents(_)
checkEvents(t) ==
  IF Len(t.events) > 0 /\ t.events[1].date <= t.currentDate
  THEN LET event == t.events[1]
       IN checkEvents([t EXCEPT !.events = Tail(@),
                                !.fired = Append(@, [key |-> event.key,
                                                     date |-> event.date,
                                                     at |-> t.currentDate])])
  ELSE t

\* TimeController.update(): nothing while paused; else the date advances by
\* daysToAdd = deltaTime * timeScale and the due events are processed
updateTime(t, daysToAdd) ==
  IF t.isPaused THEN t
  ELSE checkEvents([t EXCEPT !.currentDate = @ + daysToAdd])

SecondsPerDay == 86400   \* SECONDS_PER_DAY

\* Time scales are fractions num / den of a day per second in lowest terms;
\* 0 / 0 is NaN.
RECURSIVE GCD(_, _)
GCD(a, b) == IF b = 0 THEN a ELSE GCD(b, a % b)

Fraction(num, den) ==
  IF den = 0 THEN [num |-> 0, den |-> 0]
  ELSE [num |-> num \div GCD(num, den), den |-> den \div GCD(num, den)]

\* a <= b for two fractions that are numbers: the whole parts first, so that
\* no product leaves 32 bits
FractionLeq(a, b) ==
  IF a.num \div a.den # b.num \div b.den
  THEN a.num \div a.den < b.num \div b.den
  ELSE (a.num % a.den) * b.den <= (b.num % b.den) * a.den

\* Math.max and Math.min: NaN if either argument is
FractionMax(a, b) ==
  IF a.den = 0 \/ b.den = 0 THEN Fraction(0, 0)
  ELSE IF FractionLeq(a, b) THEN b ELSE a

FractionMin(a, b) ==
  IF a.den = 0 \/ b.den = 0 THEN Fraction(0, 0)
  ELSE IF FractionLeq(a, b) THEN a ELSE b

minTimeScale == Fraction(1, 1000)
maxTimeScale == Fraction(100000, 1)

\* the keys of timeScalePresets
TimeScalePresetNames ==
  {"realtime", "minute", "hour", "day", "week", "month", "year", "decade",
   "century"}

\* timeScalePresets[preset], days per second
timeScalePresets(preset) ==
  CASE preset = "realtime" -> Fraction(1, SecondsPerDay)
    [] preset = "minute" -> Fraction(60, SecondsPerDay)
    [] preset = "hour" -> Fraction(1, 24)
    [] preset = "day" -> Fraction(1, 1)
    [] preset = "week" -> Fraction(7, 1)
    [] preset = "month" -> Fraction(30, 1)
    [] preset = "year" -> Fraction(36525, 100)
    [] preset = "decade" -> Fraction(36525, 10)
    [] preset = "century" -> Fraction(36525, 1)

\* variant of setTimeScale that clamps against maxTimeScale only
setTimeScaleNoFloor(t, scale) ==
  [t EXCEPT !.timeScale = FractionMin(maxTimeScale, scale)]

\* setTimeScale(scale): the scale clamped to minTimeScale..maxTimeScale
setTimeScale(t, scale) ==
  [t EXCEPT !.timeScale = FractionMax(minTimeScale, FractionMin(maxTimeScale, scale))]

\* setPresetSpeed(preset): `preset in this.timeScalePresets` holds for the
\* own keys and for the names inherited from Object.prototype, whose value
\* is a function (NaN as a number); any other name changes nothing
setPresetSpeed(t, preset) ==
  LET entry == Lookup(TimeScalePresetNames, preset)
  IN IF entry.found = "own" THEN setTimeScale(t, timeScalePresets(preset))
     ELSE IF entry.found = "inherited" THEN setTimeScale(t, Fraction(0, 0))
     ELSE t

\* the TimeController as the constructor leaves it; timeScale 1 day per
\* second, as a fraction
NewTimeController ==
  [currentDate |-> 0, isPaused |-> FALSE, timeScale |-> Fraction(1, 1),
   events |-> << >>, nextKey |-> 1, fired |-> << >>, cancelled |-> {}]

(***************************************************************************)
(* Simulation: the spacecraft list (spacecraft are numbered in the order   *)
(* of their launch; 0 is null)                                             *)
(***************************************************************************)
\* this.spacecraft.indexOf(spacecraft) + 1
IndexOfSpacecraft(list, spacecraft) ==
  IF \E i \in 1..Len(list) : list[i] = spacecraft
  THEN CHOOSE i \in 1..Len(list) : list[i] = spacecraft
  ELSE 0

\* removeSpacecraft(spacecraft): splice it out of the list, clear the
\* selection if it was selected, dispose it; nothing if it is not listed
removeSpacecraft(s, spacecraft) ==
  LET index == IndexOfSpacecraft(s.spacecraft, spacecraft)
  IN IF index > 0
     THEN [s EXCEPT !.spacecraft =
                       [j \in 1..(Len(@) - 1) |-> IF j < index THEN @[j] ELSE @[j + 1]],
                    !.selectedSpacecraft = IF @ = spacecraft THEN 0 ELSE @,
                    !.disposed = @ \cup {spacecraft}]
     ELSE s

\* this.sim.spacecraft.forEach(s => this.sim.removeSpacecraft(s)) from index
\* k on: forEach visits the indices in ascending order for as long as they
\* are below the array's length, and reads the element the array holds at
\* the index when it gets there
RECURSIVE forEachRemove(_, _)
forEachRemove(s, k) ==
  IF k > Len(s.spacecraft) THEN s
  ELSE forEachRemove(removeSpacecraft(s, s.spacecraft[k]), k + 1)

\* the simulation as the constructor leaves it.  History: launched counts
\* the spacecraft launched, disposed collects those removed, cleared is
\* the length of the list that the last clearing step found (-1 = none).
NewSimulation ==
  [spacecraft |-> << >>, selectedSpacecraft |-> 0, launched |-> 0,
   disposed |-> {}, cleared |-> -1]

(***************************************************************************)
(* The state outside the manoeuvring spacecraft as construction leaves it  *)
(***************************************************************************)
InitOuter ==
  /\ inspection = NoInspection
  /\ orbit = NoOrbit
  /\ transfer = NoTransfers
  /\ clock = NewTimeController
  /\ sim = NewSimulation

(***************************************************************************)
(* State machine of one enhanced spacecraft: manoeuvre queue and burns    *)
(***************************************************************************)
MaxIgnitions == 2             \* largest ignition budget configured

\* solar intensity at the spacecraft (W/m^2): the spacecraft stays near 1 AU
SolarChoices == {SolarConstant}

\* contents of the node-time field of the panel; an empty or zero field makes
\* parseFloat(...) || 86400 fall back to one day, which is left out of the
\* values drawn here
TimeFieldChoices == 1..MaxTime

\* parseFloat(value) || 86400 of updateActiveNode
EditedTime(field) == IF field = 0 THEN DefaultNodeTime ELSE field

NoResult == [success |-> FALSE, reason |-> "none"]

\* no executeBurn call recorded
NoBurn == [called |-> FALSE, success |-> FALSE, reason |-> "none",
           fuelRequired |-> 0, ignitionsBefore |-> 0, throttleBefore |-> 0,
           batteryBefore |-> 0]

NoHistory ==
  [failed |-> {}, burn |-> NoBurn, track |-> FALSE, predict |-> FALSE,
   meter |-> FALSE]

\* the part of the spacecraft that checkManoeuvreExecution reads and writes
Machine ==
  [nodes |-> manoeuvreNodes, exec |-> executingManoeuvre, throttle |-> throttle,
   ignitionsUsed |-> ignitionsUsed, timers |-> timers, battery |-> batteryCharge,
   result |-> NoResult, hist |-> hist]

\* writes a machine state back to the variables
Commit(m) ==
  /\ manoeuvreNodes' = m.nodes
  /\ executingManoeuvre' = m.exec
  /\ throttle' = m.throttle
  /\ ignitionsUsed' = m.ignitionsUsed
  /\ timers' = m.timers
  /\ batteryCharge' = m.battery
  /\ hist' = m.hist

\* this.health.degradation as the constructor leaves it
NewHealth == [solarPanels |-> 0, battery |-> 0, reaction_wheels |-> 0]

\* this.attitude as the constructor leaves it, for config.rcsFuel = rcsFuel
NewAttitude(rcsFuel) ==
  [mode |-> "INERTIAL", orientation |-> 0, targetOrientation |-> 0,
   momentum |-> 0, rcsFuel |-> rcsFuel]

InitSpacecraft ==
  /\ manoeuvreNodes = << >>
  /\ executingManoeuvre = NoManoeuvre
  /\ throttle = 0
  /\ ignitionsUsed = 0
  /\ ignitions \in 1..MaxIgnitions
  /\ fuel = DefaultFuel
  /\ batteryCapacity = DefaultBatteryCapacity
  /\ batteryCharge = batteryCapacity
  /\ inContact = FALSE
  /\ timers = {}
  /\ nextId = 1
  /\ attitude = NewAttitude(DefaultRcsFuel)
  /\ health = NewHealth
  /\ basic = NewBasic(DefaultFuelMass * 1000)
  /\ mission = NewMission
  /\ factory = NewFactory
  /\ power = NewPower
  /\ InitOuter

Init == InitSpacecraft /\ hist = NoHistory

\* history: simulated time passes for every queued node
Elapse(nodes, dt) ==
  [i \in 1..Len(nodes) |-> [nodes[i] EXCEPT !.due = Max(0, @ - dt)]]

\* BaseSpacecraft.addManoeuvreNode(timeFromNow)
AddManoeuvreNode(t) ==
  /\ nextId <= MaxNodes
  /\ Len(manoeuvreNodes) < MaxQueue
  /\ manoeuvreNodes' = SortByTime(Append(manoeuvreNodes, NewNode(nextId, t)))
  /\ nextId' = nextId + 1
  /\ UNCHANGED <<executingManoeuvre, throttle, ignitionsUsed, ignitions,
                 fuel, batteryCharge, batteryCapacity, inContact, timers,
                 attitude, health, basic, mission, factory, power, hist,
                 outerVars>>

\* node.setDeltaV(radial, prograde, normal) through the handle that
\* addManoeuvreNode returned
SetDeltaV(id, dv) ==
  /\ id \in NodeIds(manoeuvreNodes)
  /\ LET i == IndexOf(manoeuvreNodes, id)
     IN manoeuvreNodes' = [manoeuvreNodes EXCEPT ![i] = setDeltaV(@, dv)]
  /\ UNCHANGED <<executingManoeuvre, throttle, ignitionsUsed, ignitions,
                 fuel, batteryCharge, batteryCapacity, inContact, timers,
                 nextId, attitude, health, basic, mission, factory, power,
                 hist,
                 outerVars>>

\* SpacecraftControlPanel.updateActiveNode() with activeNode = id: assigns
\* timeFromNow and calls setDeltaV; the queue is left in the order it had.
\* activeNode is the entry of the node list clicked last (selectNode changes
\* nothing else), so it is drawn as a parameter.
UpdateActiveNode(id, field, dv) ==
  /\ id \in NodeIds(manoeuvreNodes)
  /\ LET i == IndexOf(manoeuvreNodes, id)
     IN manoeuvreNodes' =
          [manoeuvreNodes EXCEPT ![i] =
             setDeltaV([@ EXCEPT !.timeFromNow = EditedTime(field),
                                 !.due = DueIn(EditedTime(field))], dv)]
  /\ UNCHANGED <<executingManoeuvre, throttle, ignitionsUsed, ignitions,
                 fuel, batteryCharge, batteryCapacity, inContact, timers,
                 nextId, attitude, health, basic, mission, factory, power,
                 hist,
                 outerVars>>

\* BaseSpacecraft.removeManoeuvreNode(node), called by the owner of a handle
\* or by SpacecraftControlPanel.deleteActiveNode() with activeNode = id
RemoveManoeuvreNode(id) ==
  /\ id \in NodeIds(manoeuvreNodes)
  /\ Commit(removeNode(Machine, id))
  /\ UNCHANGED <<ignitions, fuel, batteryCapacity, inContact, nextId,
                 attitude, health, basic, mission, factory, power,
                 outerVars>>

\* directions of the velocity or position that calculateTargetAttitude may
\* find in a tick; they are not read in INERTIAL mode
Directions == IF attitude.mode = "INERTIAL" THEN {0} ELSE DirectionChoices

\* distances to the target (tenths of its sphere of influence) that
\* updateMissionPhase may find: 20, 5 and 0.5 spheres of influence; they are
\* not read without a target
DistanceChoices == {200, 50, 5}
Distances == IF mission.targetBody THEN DistanceChoices ELSE {0}

\* BaseSpacecraft.update(deltaTime, bodies): systems.update (power,
\* communications, attitude control, health), then checkManoeuvreExecution
\* and, at the end, updateMissionPhase.  solar is the solar intensity
\* updateEnvironment finds, dir the direction calculateTargetAttitude finds,
\* distance the distance to the target and escaping whether the eccentricity
\* is 1 or more.
UpdateAt(dt, dir, solar, distance, escaping) ==
  /\ attitude' = updateAttitudeControl(attitude, dir, dt)
  /\ health' = updateSystemHealth(health, dt)
  /\ mission' = updateMissionPhase(mission, distance, escaping)
  /\ power' = updateConsumption(power, throttle, inContact)
  /\ UNCHANGED <<basic, factory,
                 outerVars>>
  /\ \E m0 \in {[Machine EXCEPT
                   !.battery = updatePowerSystem(batteryCharge, throttle,
                                                 inContact, solar, dt),
                   !.nodes = Elapse(manoeuvreNodes, dt)]} :
     \E m1 \in {checkManoeuvreExecution(m0, dt)} : Commit(m1)
  /\ inContact' = TRUE
  /\ UNCHANGED <<ignitions, fuel, batteryCapacity, nextId>>

UpdateIn(dt, dir, solar) ==
  \E distance \in Distances,
     escaping \in (IF mission.targetBody THEN BOOLEAN ELSE {FALSE}) :
    UpdateAt(dt, dir, solar, distance, escaping)

UpdateTowards(dt, dir) == \E solar \in SolarChoices : UpdateIn(dt, dir, solar)

Update(dt) == \E dir \in Directions : UpdateTowards(dt, dir)

\* the callback of executeBurn's setTimeout.  It runs between two frames once
\* duration x 1000 ms of wall-clock time have passed since the burn began;
\* how many ticks that is depends on the time scale and on pauses, so it is
\* interleaved freely with the other operations.
TimerFire(id) ==
  /\ id \in timers
  /\ timers' = timers \ {id}
  /\ throttle' = 0
  /\ UNCHANGED <<manoeuvreNodes, executingManoeuvre, ignitionsUsed,
                 ignitions, fuel, batteryCharge, batteryCapacity, inContact,
                 nextId, attitude, health, basic, mission, factory, power,
                 hist,
                 outerVars>>

Next ==
  \/ \E t \in 0..MaxTime : AddManoeuvreNode(t)
  \/ \E id \in 1..MaxNodes, dv \in DeltaVChoices : SetDeltaV(id, dv)
  \/ \E id \in 1..MaxNodes, field \in TimeFieldChoices, dv \in DeltaVChoices :
       UpdateActiveNode(id, field, dv)
  \/ \E id \in 1..MaxNodes : RemoveManoeuvreNode(id)
  \/ \E dt \in 1..MaxDt : Update(dt)
  \/ \E id \in 1..MaxNodes : TimerFire(id)

Spec == Init /\ [][Next]_vars

\* the same spacecraft, with the nodes' predictions followed
InitPredict == InitSpacecraft /\ hist = [NoHistory EXCEPT !.predict = TRUE]

SpecPredict == InitPredict /\ [][Next]_vars

\* animate() runs on every animation frame, so an enabled update is
\* eventually taken
Tick == \E dt \in 1..MaxDt : Update(dt)

SpecLive == Init /\ [][Next]_vars /\ WF_vars(Tick)

\* the same machine, with the history of the nodes' due times
InitDue == InitSpacecraft /\ hist = [NoHistory EXCEPT !.track = TRUE]

SpecDue == InitDue /\ [][Next]_vars

(***************************************************************************)
(* executeBurn on its own: every combination of the resources it tests    *)
(***************************************************************************)
\* main-engine fuel loads (kg): empty, exactly the need of the small burn, default
FuelChoices == {0, 30, DefaultFuel}

\* battery charges (kWh) around the floor of executeBurn, and a full battery
BatteryChoices == {0, MinBurnBattery - 1, MinBurnBattery, DefaultBatteryCapacity}

InitBurn ==
  /\ manoeuvreNodes = << >>
  /\ executingManoeuvre = NoManoeuvre
  /\ throttle \in {0, 1}
  /\ ignitions \in 1..MaxIgnitions
  /\ ignitionsUsed \in 0..ignitions
  /\ fuel \in FuelChoices
  /\ batteryCapacity = DefaultBatteryCapacity
  /\ batteryCharge \in BatteryChoices
  /\ inContact = FALSE
  /\ timers = {}
  /\ nextId = 1
  /\ attitude = NewAttitude(DefaultRcsFuel)
  /\ health = NewHealth
  /\ basic = NewBasic(DefaultFuelMass * 1000)
  /\ mission = NewMission
  /\ factory = NewFactory
  /\ power = NewPower
  /\ InitOuter
  /\ hist = NoHistory

\* systems.executeBurn(deltaV, duration, spacecraft) called directly; the
\* history keeps the value returned and the state the call found
ExecuteBurnCall(dv) ==
  /\ LET node == setDeltaV(NewNode(1, 0), dv)
         r == executeBurn(Machine, node)
     IN Commit([r EXCEPT !.hist.burn =
          [called |-> TRUE, success |-> r.result.success,
           reason |-> r.result.reason,
           fuelRequired |-> calculateFuelRequired(dv, DefaultMass),
           ignitionsBefore |-> ignitionsUsed, throttleBefore |-> throttle,
           batteryBefore |-> batteryCharge]])
  /\ UNCHANGED <<ignitions, fuel, batteryCapacity, inContact, nextId,
                 attitude, health, basic, mission, factory, power,
                 outerVars>>

NextBurn == \E dv \in DeltaVChoices : ExecuteBurnCall(dv)

SpecBurn == InitBurn /\ [][NextBurn]_vars

(***************************************************************************)
(* Attitude control of a spacecraft with no manoeuvre planned             *)
(***************************************************************************)
\* RCS fuel loads (0.01 kg): a store of 10 kg and the default
RcsFuelChoices == {1000, DefaultRcsFuel}

\* tick lengths (s): one frame at 60 frames/s and time scales of about 0.35
\* and 0.7 day/s (the default is 1 day/s)
AttitudeTicks == {500, 1000}

InitAtt ==
  /\ manoeuvreNodes = << >>
  /\ executingManoeuvre = NoManoeuvre
  /\ throttle = 0
  /\ ignitionsUsed = 0
  /\ ignitions = MaxIgnitions
  /\ fuel = DefaultFuel
  /\ batteryCapacity = DefaultBatteryCapacity
  /\ batteryCharge = batteryCapacity
  /\ inContact = FALSE
  /\ timers = {}
  /\ nextId = 1
  /\ \E rcsFuel \in RcsFuelChoices : attitude = NewAttitude(rcsFuel)
  /\ health = NewHealth
  /\ basic = NewBasic(DefaultFuelMass * 1000)
  /\ mission = NewMission
  /\ factory = NewFactory
  /\ power = NewPower
  /\ InitOuter
  /\ hist = NoHistory

\* the change handler of the attitude-mode selector of the control panel
SetAttitudeMode(mode) ==
  /\ attitude' = [attitude EXCEPT !.mode = mode]
  /\ UNCHANGED <<manoeuvreNodes, executingManoeuvre, throttle,
                 ignitionsUsed, ignitions, fuel, batteryCharge,
                 batteryCapacity, inContact, timers, nextId, health, basic,
                 mission, factory, power, hist,
                 outerVars>>

NextAtt ==
  \/ \E mode \in AttitudeModes : SetAttitudeMode(mode)
  \/ \E dt \in AttitudeTicks : Update(dt)

SpecAtt == InitAtt /\ [][NextAtt]_vars

(***************************************************************************)
(* Power and health of a spacecraft over a long cruise                    *)
(***************************************************************************)
MaxYears == 3                 \* years of battery wear followed

\* solar intensity (W/m^2) at about 5 AU, 2 AU and 1 AU
CruiseSolarChoices == {54, 340, SolarConstant}

\* tick lengths (s): one day and one year, one frame at high time scales
CruiseTicks == {86400, 31536000}

\* one update of the cruising spacecraft
CruiseUpdate(dt, solar) ==
  /\ health.battery < 20 * MaxYears
  /\ UpdateIn(dt, 0, solar)

\* setTarget(bodyName, bodies) on the enhanced spacecraft: targetBody is
\* what bodies.get(bodyName) returns, nothing for an unknown name
SetTarget(known) ==
  /\ mission' = [mission EXCEPT !.targetBody = known]
  /\ UNCHANGED <<manoeuvreNodes, executingManoeuvre, throttle,
                 ignitionsUsed, ignitions, fuel, batteryCharge,
                 batteryCapacity, inContact, timers, nextId, attitude,
                 health, basic, factory, power, hist,
                 outerVars>>

\* loads written to power.consumers.instruments (W): off, the default and
\* the value of the API example
InstrumentChoices == {0, InstrumentsW, 500}

\* spacecraft.systems.power.consumers.instruments = watts
SetInstruments(watts) ==
  /\ power' = [power EXCEPT !.instruments = watts]
  /\ UNCHANGED <<manoeuvreNodes, executingManoeuvre, throttle,
                 ignitionsUsed, ignitions, fuel, batteryCharge,
                 batteryCapacity, inContact, timers, nextId, attitude,
                 health, basic, mission, factory, hist,
                 outerVars>>

NextCruise ==
  \/ \E dt \in CruiseTicks, solar \in CruiseSolarChoices : CruiseUpdate(dt, solar)
  \/ \E known \in BOOLEAN : SetTarget(known)

SpecCruise == Init /\ [][NextCruise]_vars

(***************************************************************************)
(* State machine of the power consumers: day-long updates of a spacecraft  *)
(* with no manoeuvre planned, and writes to consumers.instruments          *)
(***************************************************************************)
\* deltaTime of an update (s): one day
PowerTicks == {86400}

PowerUpdate(dt, solar) ==
  /\ executingManoeuvre = NoManoeuvre
  /\ UpdateIn(dt, 0, solar)

NextPower ==
  \/ \E dt \in PowerTicks, solar \in CruiseSolarChoices : PowerUpdate(dt, solar)
  \/ \E watts \in InstrumentChoices : SetInstruments(watts)

InitPower == InitSpacecraft /\ hist = [NoHistory EXCEPT !.meter = TRUE]

SpecPower == InitPower /\ [][NextPower]_vars

(***************************************************************************)
(* State machine of the factory's callers                                 *)
(***************************************************************************)
\* how many spacecraft the callers create
MaxFleet == 2

\* names the callers pass: every key of the two tables, a name in neither
\* and an inherited name
NameChoices == PresetNames \cup MissionTypes \cup {"phobos"} \cup InheritedNames

\* the caller keeps the spacecraft a factory call returns; a throw leaves
\* the fleet as it was
Call(call, arg, result) ==
  /\ factory' = [fleet |-> factory.fleet \o result.craft, call |-> call,
                 arg |-> arg, threw |-> result.threw]
  /\ UNCHANGED <<manoeuvreNodes, executingManoeuvre, throttle,
                 ignitionsUsed, ignitions, fuel, batteryCharge,
                 batteryCapacity, inContact, timers, nextId, attitude,
                 health, basic, mission, power, hist, outerVars>>

CreateFromPreset(preset) ==
  /\ Len(factory.fleet) < MaxFleet
  /\ Call("createFromPreset", preset, createFromPreset(preset))

CreateForMission(missionType) ==
  /\ Len(factory.fleet) < MaxFleet
  /\ Call("createForMission", missionType, createForMission(missionType))

NextFactory ==
  \/ \E preset \in NameChoices : CreateFromPreset(preset)
  \/ \E missionType \in NameChoices : CreateForMission(missionType)

SpecFactory == Init /\ [][NextFactory]_vars

(***************************************************************************)
(* State machine of the warnings: the systems change between two calls of  *)
(* checkSystemConstraints                                                  *)
(***************************************************************************)
\* the variables of the two spacecraft
craftVars ==
  <<manoeuvreNodes, executingManoeuvre, throttle, ignitionsUsed, ignitions,
    fuel, batteryCharge, batteryCapacity, inContact, timers, nextId, attitude,
    health, basic, mission, factory, power, hist>>

\* systems the updates may leave: values on both sides of every threshold
SystemChoices ==
  [batteryCharge : {0, 19, 20, DefaultBatteryCapacity},
   batteryCapacity : {DefaultBatteryCapacity},
   currentConsumption : {BaseloadW},
   currentGeneration : {0, 333, 334, 400, 600},
   internalTemp : {TempMin - 1, TempMin, TempMax, TempMax + 1},
   momentum : {MaxMomentum * 800, MaxMomentum * 800 + 1},
   fuel : {LowFuel - 1, LowFuel}]

\* SpacecraftSystems.update up to checkSystemConstraints: the subsystem
\* updates leave the systems in some state
SystemsUpdate(sys) ==
  /\ inspection' = [NoInspection EXCEPT !.systems = sys, !.before = sys]
  /\ UNCHANGED <<craftVars, orbit, transfer, clock, sim>>

\* this.checkSystemConstraints()
CheckSystemConstraints ==
  /\ ~inspection.called
  /\ \E r \in {checkSystemConstraints(inspection.systems)} :
       inspection' = [systems |-> r.systems, warnings |-> r.warnings,
                      before |-> inspection.systems, called |-> TRUE]
  /\ UNCHANGED <<craftVars, orbit, transfer, clock, sim>>

NextConstraints ==
  \/ \E sys \in SystemChoices : SystemsUpdate(sys)
  \/ CheckSystemConstraints

SpecConstraints == Init /\ [][NextConstraints]_vars

(***************************************************************************)
(* State machine of the orbital elements: the state vector changes between *)
(* two calls                                                               *)
(***************************************************************************)
\* positions: none, NaN, the origin, 1 AU on either side and 2 AU
PositionChoices ==
  {[given |-> FALSE, x |-> Num(0)]}
    \cup {[given |-> TRUE, x |-> x] : x \in {NaN, Num(0), Num(10), Num(-10), Num(20)}}

\* velocities: none, NaN, and components of 0, 21 and 30 km/s (30 km/s is
\* the circular speed at 1 AU; 30 km/s on both axes is the escape speed)
VelocityChoices ==
  {[given |-> FALSE, radial |-> Num(0), transverse |-> Num(0)],
   [given |-> TRUE, radial |-> NaN, transverse |-> Num(0)]}
    \cup {[given |-> TRUE, radial |-> Num(vr), transverse |-> Num(vt)] :
            vr \in {0, 30}, vt \in {0, 21, 30}}

\* mu: missing, 0 and the Sun's
MuChoices == {NaN, Num(0), Num(MuSun)}

\* the spacecraft moves: its state vector is some position and velocity
Move(position, velocity) ==
  /\ orbit' = [NoOrbit EXCEPT !.position = position, !.velocity = velocity]
  /\ UNCHANGED <<craftVars, inspection, transfer, clock, sim>>

\* OrbitalMechanics.calculateOrbitalElements(position, velocity, mu)
CalculateOrbitalElements(mu) ==
  /\ orbit.called = "none"
  /\ orbit' = [orbit EXCEPT
                 !.elements = calculateOrbitalElements(orbit.position,
                                                       orbit.velocity, mu),
                 !.mu = mu, !.called = "calculateOrbitalElements"]
  /\ UNCHANGED <<craftVars, inspection, transfer, clock, sim>>

\* spacecraft.getOrbitalElements(): the elements about the Sun, from the
\* spacecraft's own position and velocity
GetOrbitalElements ==
  /\ orbit.called = "none"
  /\ orbit.position.given /\ orbit.velocity.given
  /\ orbit' = [orbit EXCEPT
                 !.elements = calculateOrbitalElements(orbit.position,
                                                       orbit.velocity, Num(MuSun)),
                 !.mu = Num(MuSun), !.called = "getOrbitalElements"]
  /\ UNCHANGED <<craftVars, inspection, transfer, clock, sim>>

NextElements ==
  \/ \E position \in PositionChoices, velocity \in VelocityChoices :
       Move(position, velocity)
  \/ \E mu \in MuChoices : CalculateOrbitalElements(mu)
  \/ GetOrbitalElements

SpecElements == Init /\ [][NextElements]_vars

(***************************************************************************)
(* State machine of the spacecraft at a high time scale: at the 'hour'     *)
(* preset a frame of 1/60 s advances the simulation by 60 s                *)
(***************************************************************************)
\* tick lengths (seconds) of one update
CoarseTicks == {1, 60}

CoarseTick == \E dt \in CoarseTicks : Update(dt)

NextCoarse ==
  \/ \E t \in 0..MaxTime : AddManoeuvreNode(t)
  \/ \E id \in 1..MaxNodes, dv \in DeltaVChoices : SetDeltaV(id, dv)
  \/ \E dt \in CoarseTicks : Update(dt)
  \/ \E id \in 1..MaxNodes : TimerFire(id)

SpecCoarse == Init /\ [][NextCoarse]_vars

(***************************************************************************)
(* State machine of the transfer planner: Hohmann transfers between        *)
(* circular orbits, one call after the other                               *)
(***************************************************************************)
\* the largest radius (AU); Neptune's orbit is at 30 AU
MaxRadius == 30

\* departure orbits: 1 and 2 AU and the largest radius
DepartureChoices == {1, 2, MaxRadius}

CalculateHohmannTransfer(r1, r2) ==
  /\ transfer' =
       [last |-> [r1 |-> r1, r2 |-> r2, result |-> calculateHohmannTransfer(r1, r2)],
        previous |-> IF transfer.last.r1 = r1 THEN transfer.last ELSE NoTransfer]
  /\ UNCHANGED <<craftVars, inspection, orbit, clock, sim>>

NextTransfers ==
  \E r1 \in DepartureChoices, r2 \in 1..MaxRadius : CalculateHohmannTransfer(r1, r2)

SpecTransfers == Init /\ [][NextTransfers]_vars

(***************************************************************************)
(* State machine of the TimeController's event queue                       *)
(***************************************************************************)
MaxEvents == 3   \* events scheduled in one run
MaxDate == 2     \* the last day followed

\* values of Date.now() + Math.random(): two events may get the same one
EventIds == {1, 2}

ScheduleEvent(date, id, throws) ==
  /\ clock.nextKey <= MaxEvents
  /\ clock' = scheduleEvent(clock, date, id, throws)
  /\ UNCHANGED <<craftVars, inspection, orbit, transfer, sim>>

CancelEvent(eventId) ==
  /\ clock' = cancelEvent(clock, eventId)
  /\ UNCHANGED <<craftVars, inspection, orbit, transfer, sim>>

\* update() in a frame that advances the date by daysToAdd (the controller
\* is not paused: pause() and play() are left out)
UpdateTime(daysToAdd) ==
  /\ clock.currentDate + daysToAdd <= MaxDate
  /\ clock' = updateTime(clock, daysToAdd)
  /\ UNCHANGED <<craftVars, inspection, orbit, transfer, sim>>

\* setDate(date) with a valid date
SetDate(date) ==
  /\ clock' = [clock EXCEPT !.currentDate = date]
  /\ UNCHANGED <<craftVars, inspection, orbit, transfer, sim>>

NextEvents ==
  \/ \E date \in 1..MaxDate, id \in EventIds, throws \in BOOLEAN :
       ScheduleEvent(date, id, throws)
  \/ \E eventId \in EventIds : CancelEvent(eventId)
  \/ \E daysToAdd \in 0..MaxDate : UpdateTime(daysToAdd)
  \/ \E date \in 0..MaxDate : SetDate(date)

SpecEvents == Init /\ [][NextEvents]_vars

(***************************************************************************)
(* State machine of the TimeController's time scale                        *)
(***************************************************************************)
\* names handed to setPresetSpeed: the presets, a name that no object has
\* and a name every object inherits
SpeedNameChoices == TimeScalePresetNames \cup {"warp"} \cup InheritedNames

SetPresetSpeed(preset) ==
  /\ clock' = setPresetSpeed(clock, preset)
  /\ UNCHANGED <<craftVars, inspection, orbit, transfer, sim>>

\* increaseSpeed()
IncreaseSpeed ==
  /\ clock' = setTimeScale(clock, Fraction(clock.timeScale.num * 2,
                                           clock.timeScale.den))
  /\ UNCHANGED <<craftVars, inspection, orbit, transfer, sim>>

\* decreaseSpeed()
DecreaseSpeed ==
  /\ clock' = setTimeScale(clock, Fraction(clock.timeScale.num,
                                           clock.timeScale.den * 2))
  /\ UNCHANGED <<craftVars, inspection, orbit, transfer, sim>>

NextScale ==
  \/ \E preset \in SpeedNameChoices : SetPresetSpeed(preset)
  \/ IncreaseSpeed
  \/ DecreaseSpeed

SpecScale == Init /\ [][NextScale]_vars

(***************************************************************************)
(* State machine of the simulation's spacecraft list                       *)
(***************************************************************************)
MaxSpacecraft == 4   \* spacecraft launched in one run

\* launchSpacecraft(name, fromBody, deltaV) from a body that exists
LaunchSpacecraft ==
  /\ sim.launched < MaxSpacecraft
  /\ sim' = [sim EXCEPT !.spacecraft = Append(@, sim.launched + 1),
                        !.selectedSpacecraft = sim.launched + 1,
                        !.launched = @ + 1,
                        !.cleared = -1]
  /\ UNCHANGED <<craftVars, inspection, orbit, transfer, clock>>

\* selectSpacecraft(spacecraft) by a click on a listed spacecraft
SelectSpacecraft(spacecraft) ==
  /\ IndexOfSpacecraft(sim.spacecraft, spacecraft) > 0
  /\ sim' = [sim EXCEPT !.selectedSpacecraft = spacecraft, !.cleared = -1]
  /\ UNCHANGED <<craftVars, inspection, orbit, transfer, clock>>

\* removeSpacecraft(spacecraft)
RemoveSpacecraft(spacecraft) ==
  /\ sim' = [removeSpacecraft(sim, spacecraft) EXCEPT !.cleared = -1]
  /\ UNCHANGED <<craftVars, inspection, orbit, transfer, clock>>

\* the clearing step at the start of PhysicsTest.runAllTests
ClearSpacecraft ==
  /\ sim' = [forEachRemove(sim, 1) EXCEPT !.cleared = Len(sim.spacecraft)]
  /\ UNCHANGED <<craftVars, inspection, orbit, transfer, clock>>

NextSimulation ==
  \/ LaunchSpacecraft
  \/ \E spacecraft \in 1..MaxSpacecraft : SelectSpacecraft(spacecraft)
  \/ \E spacecraft \in 1..MaxSpacecraft : RemoveSpacecraft(spacecraft)
  \/ ClearSpacecraft

SpecSimulation == Init /\ [][NextSimulation]_vars

(***************************************************************************)
(* State machine of the basic spacecraft                                  *)
(***************************************************************************)
\* the variables of the enhanced spacecraft
enhancedVars ==
  <<manoeuvreNodes, executingManoeuvre, throttle, ignitionsUsed, ignitions,
    fuel, batteryCharge, batteryCapacity, inContact, timers, nextId, attitude,
    health, mission, factory, power, hist, outerVars>>

\* initialState.fuelMass (g): 200 kg and the default
FuelMassChoices == {200000, DefaultFuelMass * 1000}

\* tick lengths (s) of the basic spacecraft; an update with deltaTime 0 is
\* a call of the method, not a frame of animate()
BasicTicks == {0, 100}

\* gravitational acceleration (m/s^2) along the axis
GravityChoices == {-1, 0}

\* directions handed to setThrust: along the axis
ThrustDirections == {1}

\* delta-V handed to applyManeuver: a non-finite number (a finite one changes
\* the velocity as thrust does)
ManeuverChoices == {NaN}

InitBasic ==
  /\ manoeuvreNodes = << >>
  /\ executingManoeuvre = NoManoeuvre
  /\ throttle = 0
  /\ ignitionsUsed = 0
  /\ ignitions = MaxIgnitions
  /\ fuel = DefaultFuel
  /\ batteryCapacity = DefaultBatteryCapacity
  /\ batteryCharge = batteryCapacity
  /\ inContact = FALSE
  /\ timers = {}
  /\ nextId = 1
  /\ attitude = NewAttitude(DefaultRcsFuel)
  /\ health = NewHealth
  /\ hist = NoHistory
  /\ mission = NewMission
  /\ factory = NewFactory
  /\ power = NewPower
  /\ InitOuter
  /\ \E f \in FuelMassChoices : basic = NewBasic(f)

\* setThrust(direction, on) with a direction along the axis
SetThrust(direction, on) ==
  /\ basic' = [basic EXCEPT !.engineOn = on,
                            !.thrustVector = IF on THEN direction ELSE @]
  /\ UNCHANGED enhancedVars

\* applyManeuver(deltaV, direction) with the direction along the axis
ApplyManeuver(deltaV) ==
  /\ basic' = [basic EXCEPT !.velocity = Plus(@, deltaV)]
  /\ UNCHANGED enhancedVars

\* update(deltaTime, bodies) of the basic spacecraft
UpdateBasic(dt, gravity) ==
  /\ basic.ticks < MaxTicks
  /\ basic' = updateBasic(basic, gravity, dt)
  /\ UNCHANGED enhancedVars

\* clearTrajectory()
ClearTrajectory ==
  /\ basic' = [basic EXCEPT !.trajectory = << >>, !.pushed = << >>]
  /\ UNCHANGED enhancedVars

NextBasic ==
  \/ \E direction \in ThrustDirections, on \in BOOLEAN : SetThrust(direction, on)
  \/ \E deltaV \in ManeuverChoices : ApplyManeuver(deltaV)
  \/ \E dt \in BasicTicks, gravity \in GravityChoices : UpdateBasic(dt, gravity)
  \/ ClearTrajectory

SpecBasic == InitBasic /\ [][NextBasic]_vars

(***************************************************************************)
(* Properties                                                             *)
(***************************************************************************)
HeadNode == manoeuvreNodes[1]
Executing == executingManoeuvre # NoManoeuvre

\* C1: at most one manoeuvre node executes at a time: a burn begins (an
\* ignition is used) only in a step that found executingManoeuvre null, also
\* when another queued node's countdown has expired; and a step begins at
\* most one burn.
C1_OneExecutingAtATime ==
  [][/\ ignitionsUsed' # ignitionsUsed => ~Executing
     /\ ignitionsUsed' <= ignitionsUsed + 1]_vars

\* a burn is executing while another queued node's countdown has expired
C1_Witness ==
  /\ Executing
  /\ \E i \in 1..Len(manoeuvreNodes) :
       /\ manoeuvreNodes[i].id # executingManoeuvre.node
       /\ manoeuvreNodes[i].timeFromNow <= 0

\* C2: the node that begins executing is the head of the queue, in a step
\* that brings its countdown to 0 or below, opens the throttle and uses one
\* ignition; under repeated updates every executing node eventually
\* completes, and at completion the throttle is 0, executingManoeuvre is null
\* and the node is no longer in manoeuvreNodes.
C2_PlannedExecutingCompleted ==
  /\ [][(~Executing /\ Executing') =>
          /\ Len(manoeuvreNodes) > 0
          /\ executingManoeuvre'.node = HeadNode.id
          /\ manoeuvreNodes'[1].id = HeadNode.id
          /\ manoeuvreNodes'[1].timeFromNow <= 0
          /\ manoeuvreNodes'[1].timeFromNow < HeadNode.timeFromNow
          /\ throttle' = 1
          /\ ignitionsUsed' = ignitionsUsed + 1]_vars
  /\ [][(Executing /\ ~Executing') =>
          /\ throttle' = 0
          /\ executingManoeuvre.node \notin NodeIds(manoeuvreNodes')]_vars
  /\ \A id \in 1..MaxNodes :
       (executingManoeuvre.node = id) ~>
          (~Executing /\ throttle = 0 /\ id \notin NodeIds(manoeuvreNodes))

\* a burn has begun and has completed: one ignition is used, its callback is
\* scheduled, nothing is executing and the queue is empty
C2_Witness ==
  /\ ignitionsUsed > 0
  /\ ~Executing
  /\ throttle = 0
  /\ manoeuvreNodes = << >>
  /\ timers # {}

\* C3: while a manoeuvre is executing with time remaining the main throttle
\* is 1: nothing but the per-tick countdown ends a burn.
C3_ThrottleHeldWhileExecuting ==
  (Executing /\ executingManoeuvre.timeRemaining > 0) => throttle = 1

\* C4: removeManoeuvreNode(n) (also through deleteActiveNode) leaves n not
\* executing, leaves no thrust to be applied for n, leaves no scheduled
\* callback of n pending, and leaves the throttle closed if n was the node
\* executing.
C4_RemovalIsSafe ==
  [][\A id \in 1..MaxNodes :
       RemoveManoeuvreNode(id) =>
         /\ executingManoeuvre'.node # id
         /\ manoeuvreThrustNode([exec |-> executingManoeuvre',
                                 throttle |-> throttle']) # id
         /\ id \notin timers'
         /\ (executingManoeuvre.node = id => throttle' = 0)]_vars

\* C5: manoeuvreNodes is sorted by ascending timeFromNow, so the node at index
\* 0 is the one with the smallest timeFromNow.
C5_QueueSorted == IsSortedByTime(manoeuvreNodes)

\* C6: executeBurn rejects with 'No ignitions remaining' when ignitionsUsed >=
\* ignitions, otherwise with 'Insufficient fuel' when the fuel required
\* exceeds the main fuel, otherwise with 'Insufficient power' when the battery
\* is below 10 kWh; a rejection changes neither throttle nor ignitionsUsed; a
\* success sets the throttle to 1 and uses exactly one ignition; ignitionsUsed
\* never exceeds ignitions.
C6_ExecuteBurnResult ==
  /\ ignitionsUsed <= ignitions
  /\ hist.burn.called =>
       LET b == hist.burn
           expected ==
             CASE b.ignitionsBefore >= ignitions -> "No ignitions remaining"
               [] b.ignitionsBefore < ignitions /\ b.fuelRequired > fuel
                    -> "Insufficient fuel"
               [] b.ignitionsBefore < ignitions /\ b.fuelRequired <= fuel
                  /\ b.batteryBefore < 10 -> "Insufficient power"
               [] OTHER -> "none"
       IN /\ b.reason = expected
          /\ b.success <=> (expected = "none")
          /\ ~b.success => /\ throttle = b.throttleBefore
                           /\ ignitionsUsed = b.ignitionsBefore
          /\ b.success => /\ throttle = 1
                          /\ ignitionsUsed = b.ignitionsBefore + 1

\* a burn was rejected for power although ignitions and fuel sufficed
C6_Witness ==
  /\ hist.burn.called
  /\ hist.burn.reason = "Insufficient power"
  /\ hist.burn.fuelRequired > 0

\* C7: a node whose burn is rejected when its countdown expires leaves the
\* queue in that tick without executing: executingManoeuvre stays null, the
\* throttle stays 0, ignitionsUsed is unchanged and the other nodes stay
\* queued; the node is never queued, executing or scheduled again, and the
\* head of the queue is counted down on every tick that finds no burn
\* executing.
C7_RejectedNodeDropped ==
  /\ [][(Tick /\ hist.failed' # hist.failed) =>
          /\ ~Executing /\ ~Executing'
          /\ throttle = 0 /\ throttle' = 0
          /\ ignitionsUsed' = ignitionsUsed
          /\ hist.failed' = hist.failed \cup {HeadNode.id}
          /\ NodeIds(manoeuvreNodes') = NodeIds(manoeuvreNodes) \ {HeadNode.id}]_vars
  /\ [](\A id \in hist.failed :
          /\ id \notin NodeIds(manoeuvreNodes)
          /\ executingManoeuvre.node # id
          /\ id \notin timers)
  /\ [][\A dt \in 1..MaxDt :
          (Update(dt) /\ ~Executing /\ Len(manoeuvreNodes) > 0) =>
            \/ HeadNode.id \notin NodeIds(manoeuvreNodes')
            \/ executingManoeuvre'.node = HeadNode.id
            \/ manoeuvreNodes'[1].timeFromNow = HeadNode.timeFromNow - dt]_vars

\* a node was rejected and a node queued behind it is executing
C7_Witness ==
  /\ hist.failed # {}
  /\ Executing
  /\ \E id \in hist.failed : id < executingManoeuvre.node

\* C8: every queued node begins its burn in the tick in which the time given
\* to addManoeuvreNode (or assigned since) has elapsed: a tick that finds no
\* burn executing, begins none and rejects none leaves no queued node whose
\* time has elapsed.
C8_NodesStartWhenDue ==
  [][(/\ Tick
      /\ ~Executing /\ ~Executing'
      /\ ignitionsUsed' = ignitionsUsed
      /\ hist.failed' = hist.failed) =>
       \A i \in 1..Len(manoeuvreNodes') : manoeuvreNodes'[i].due > 0]_vars

\* C9: the magnitude of the reaction-wheel momentum never exceeds maxMomentum
\* (50 Nms), in any attitude mode and for any tick length.
C9_WheelMomentumCapped == Abs(attitude.momentum) <= MaxMomentum * 1000

\* attitude control is active in a tick that finds the velocity or position
\* in direction dir: a mode other than INERTIAL and an error above the deadband
ControlActive(dir) ==
  /\ attitude.mode # "INERTIAL"
  /\ Abs(quaternionError(calculateTargetAttitude(attitude, dir))) > Deadband

\* C10 as stated: a tick with the wheel momentum at or past 80 % of
\* maxMomentum and attitude control active strictly decreases the RCS fuel.
C10_DesaturationAlwaysUsesFuel ==
  [][\A dt \in AttitudeTicks, dir \in DirectionChoices :
       (/\ UpdateTowards(dt, dir)
        /\ ControlActive(dir)
        /\ Abs(attitude.momentum) >= SaturationThreshold) =>
         attitude'.rcsFuel < attitude.rcsFuel]_vars

\* C10: a tick with the wheel momentum at or past 80 % of maxMomentum and
\* attitude control active strictly decreases the RCS fuel while the RCS
\* store is not empty, and reduces the wheel momentum; with an empty store it
\* changes neither.
C10_DesaturationUsesFuel ==
  [][\A dt \in AttitudeTicks, dir \in DirectionChoices :
       (/\ UpdateTowards(dt, dir)
        /\ ControlActive(dir)
        /\ Abs(attitude.momentum) >= SaturationThreshold) =>
         IF attitude.rcsFuel > 0
         THEN /\ attitude'.rcsFuel < attitude.rcsFuel
              /\ Abs(attitude'.momentum) < Abs(attitude.momentum)
         ELSE /\ attitude'.rcsFuel = attitude.rcsFuel
              /\ attitude'.momentum = attitude.momentum]_vars

\* the RCS has fired, fuel is left, and the wheels are at or past 80 % with a
\* pointing error in a mode that keeps its target
C10_Witness ==
  /\ attitude.rcsFuel > 0
  /\ attitude.rcsFuel < 1000
  /\ Abs(attitude.momentum) >= SaturationThreshold
  /\ attitude.mode = "NORMAL"
  /\ Abs(quaternionError(attitude)) > Deadband

\* C11: attitude.rcs.fuel is never negative: desaturation never draws more
\* RCS fuel than remains, for any tick length.
C11_RcsFuelNonNegative == attitude.rcsFuel >= 0

\* C12: at the end of every SpacecraftSystems.update the battery charge lies
\* between 0 and batteryCapacity x (1 - degradation.battery / 100), with the
\* degradation in effect at the end of that update.
C12_BatteryWithinDegradedCapacity ==
  /\ 0 <= batteryCharge
  /\ batteryCharge <= maxCapacity(health)

\* C13: the fuel mass of the basic spacecraft is never negative and never
\* increases; an update that finds the engine on and fuel left removes
\* min(fuelBurnRate x dt, fuelMass), every other update and every setThrust
\* removes nothing.
C13_FuelMassClamped ==
  /\ [](basic.fuelMass >= 0)
  /\ [][basic'.fuelMass <= basic.fuelMass]_vars
  /\ [][\A dt \in BasicTicks, gravity \in GravityChoices :
          UpdateBasic(dt, gravity) =>
            basic'.fuelMass =
              IF basic.engineOn /\ basic.fuelMass > 0
              THEN basic.fuelMass - Min(fuelBurnRate * dt, basic.fuelMass)
              ELSE basic.fuelMass]_vars
  /\ [][\A direction \in ThrustDirections, on \in BOOLEAN :
          SetThrust(direction, on) => basic'.fuelMass = basic.fuelMass]_vars

\* the tank ran dry in a thrusting tick that asked for more than was left
C13_Witness ==
  /\ basic.fuelMass = 0
  /\ basic.engineOn
  /\ basic.velocity # Num(0)

\* C14: the trajectory never holds more than maxTrajectoryPoints points, and
\* it holds the most recent points pushed, in the order they were pushed: a
\* push onto a full buffer evicts exactly the oldest point.
C14_TrajectoryRingBuffer ==
  LET n == Len(basic.pushed)
      k == Min(n, TrailLength)
  IN /\ Len(basic.trajectory) <= TrailLength
     /\ basic.trajectory = SubSeq(basic.pushed, n - k + 1, n)

\* the buffer is full, a point has been evicted, and the points differ
C14_Witness ==
  /\ Len(basic.pushed) > TrailLength
  /\ Len(basic.trajectory) = TrailLength
  /\ basic.trajectory[1] # basic.pushed[1]
  /\ basic.trajectory[1] # basic.trajectory[TrailLength]

\* C15: an update that leaves the position non-finite appends nothing to the
\* trajectory, still advances missionElapsedTime by dt and still integrates
\* the velocity; it warns only if the update before it recorded a point, so a
\* run of invalid updates warns once.
C15_InvalidPositionSkipped ==
  [][\A dt \in BasicTicks, gravity \in GravityChoices :
       (UpdateBasic(dt, gravity) /\ ~isFinite(basic'.position)) =>
         /\ basic'.trajectory = basic.trajectory
         /\ basic'.missionElapsedTime = basic.missionElapsedTime + dt
         /\ basic'.velocity = Plus(basic.velocity, Num(basic'.acceleration * dt))
         /\ basic'.warnedInvalidPosition
         /\ basic'.warnings =
              basic.warnings + (IF basic.warnedInvalidPosition THEN 0 ELSE 1)]_vars

\* two or more updates in a row found the position non-finite and one
\* warning was given, after points had been recorded
C15_Witness ==
  /\ ~isFinite(basic.position)
  /\ basic.skipped >= 2
  /\ basic.warnings = 1
  /\ basic.missionElapsedTime > 0
  /\ Len(basic.trajectory) > 0

Inbound ==
  /\ mission.targetBody /\ mission'.targetBody
  /\ mission.targetDistance > 0
  /\ mission'.targetDistance < mission.targetDistance
  /\ mission.phase # "ESCAPE" /\ mission'.phase # "ESCAPE"

C17_PhaseOrderInbound ==
  [][Inbound =>
       /\ (mission'.phase = "ENCOUNTER" /\ mission.phase # "ENCOUNTER")
            => mission.phase = "APPROACH"
       /\ (mission'.phase = "APPROACH" /\ mission.phase # "APPROACH")
            => mission.phase # "ENCOUNTER"]_vars

\* C18 (as claimed): a factory call with an unknown preset name or an
\* unknown mission type throws, and adds no spacecraft to the fleet.
UnknownName ==
  \/ factory.call = "createFromPreset" /\ factory.arg \notin PresetNames
  \/ factory.call = "createForMission" /\ factory.arg \notin MissionTypes

C18_UnknownNameFails ==
  [][(UnknownName' /\ factory' # factory)
       => (factory'.threw /\ factory'.fleet = factory.fleet)]_vars

\* C19 (as claimed): whenever a step changes the delta-V or the timeFromNow
\* of a node that stays in the queue (setDeltaV, an edit of timeFromNow, the
\* countdown), the node's predicted position and velocity afterwards are
\* the propagation over its current timeFromNow.
NodeOf(nodes, id) == nodes[IndexOf(nodes, id)]

PredictionFresh(node) == node.predicted = propagateOrbit(node.timeFromNow)

C19_PredictionFollowsNode ==
  [][\A id \in NodeIds(manoeuvreNodes) \cap NodeIds(manoeuvreNodes') :
       LET before == NodeOf(manoeuvreNodes, id)
           after == NodeOf(manoeuvreNodes', id)
       IN (after.deltaV # before.deltaV \/ after.timeFromNow # before.timeFromNow)
            => PredictionFresh(after)]_vars

\* C20 (as claimed): after updatePowerSystem, currentConsumption is the
\* baseload plus the propulsion load when thrusting, the communications
\* load when in contact and the instruments load when the instruments are
\* on (a positive consumers.instruments), each as updatePowerSystem found it.
C20_ConsumptionCountsInstruments ==
  power.currentConsumption # 0 =>
    power.currentConsumption =
      BaseloadW + (IF power.sampled.thrusting THEN PropulsionW ELSE 0)
                + (IF power.sampled.inContact THEN CommunicationsW ELSE 0)
                + power.sampled.instruments

\* the warnings in the order checkSystemConstraints is to return them
WarningOrder ==
  <<"LOW BATTERY", "POWER DEFICIT", "THERMAL VIOLATION",
    "REACTION WHEELS SATURATING", "LOW FUEL">>

\* the condition of each warning other than the power deficit
ConditionHolds(kind, sys) ==
  CASE kind = "LOW BATTERY" -> sys.batteryCharge * 5 < sys.batteryCapacity
    [] kind = "THERMAL VIOLATION" ->
         sys.internalTemp < TempMin \/ sys.internalTemp > TempMax
    [] kind = "REACTION WHEELS SATURATING" ->
         Abs(sys.momentum) * 5 > MaxMomentum * 1000 * 4
    [] kind = "LOW FUEL" -> sys.fuel < LowFuel
    [] OTHER -> FALSE

AnyDeficit(sys) == sys.currentConsumption > sys.currentGeneration

\* C21 (as claimed): checkSystemConstraints returns, in the fixed order, the
\* warning of every condition that holds, the power deficit whenever the
\* consumption exceeds the generation, and changes no subsystem state.
C21_WarningsAnyDeficit ==
  inspection.called =>
    /\ inspection.warnings =
         SelectSeq(WarningOrder,
                   LAMBDA kind : IF kind = "POWER DEFICIT"
                                 THEN AnyDeficit(inspection.before)
                                 ELSE ConditionHolds(kind, inspection.before))
    /\ inspection.systems = inspection.before

\* the elements as computed, before safeValue, when the inputs pass the
\* validation
Validated ==
  /\ orbit.position.given /\ orbit.velocity.given
  /\ isFinite(orbit.mu) /\ orbit.mu # Num(0)
  /\ isFinite(orbit.position.x) /\ orbit.position.x # Num(0)
  /\ isFinite(orbit.velocity.radial) /\ isFinite(orbit.velocity.transverse)

Computed ==
  computedElements(Abs(orbit.position.x[1]), orbit.velocity.radial[1],
                   orbit.velocity.transverse[1] * Sgn(orbit.position.x[1]),
                   orbit.mu[1])

\* C22 (as claimed): calculateOrbitalElements returns the all-zero elements
\* whenever the position is missing, zero or non-finite, mu is zero or
\* missing, or a computed element is non-finite, and never returns a field
\* that is NaN or infinite.
C22_DegenerateGivesZeroElements ==
  orbit.called # "none" =>
    /\ \A f \in DOMAIN orbit.elements : isFinite(orbit.elements[f])
    /\ (~Validated \/ \E f \in DOMAIN Computed : ~isFinite(Computed[f]))
         => orbit.elements = ZeroElements

\* C23 (as claimed): for a spacecraft 1 AU from the Sun whose velocity is
\* perpendicular to its position with the circular speed, getOrbitalElements
\* reports an eccentricity below 0.02 and a semi-major axis within 0.01 AU
\* of 1 AU.
OnCircularOrbit ==
  /\ orbit.position = [given |-> TRUE, x |-> Num(10)]
  /\ orbit.velocity = [given |-> TRUE, radial |-> Num(0), transverse |-> Num(30)]

C23_CircularOrbitElements ==
  (orbit.called = "getOrbitalElements" /\ OnCircularOrbit) =>
    /\ orbit.elements.eccentricity[1] < 20
    /\ Abs(orbit.elements.semiMajorAxis[1] - 1000) <= 10

\* half the period 2 * pi * sqrt(r^3 / mu) / 86400 of the circular orbit at
\* r AU, in days
HalfCircularPeriod(r) == ISqrt(r * r * r * 8 * 4169)

\* the last two calls left the same orbit on the same side, the last one
\* going further
Further ==
  /\ transfer.previous.r1 # 0
  /\ \/ transfer.previous.r2 >= transfer.last.r1
        /\ transfer.last.r2 > transfer.previous.r2
     \/ transfer.previous.r2 <= transfer.last.r1
        /\ transfer.last.r2 < transfer.previous.r2

SameOrbit(t) ==
  (t.r1 # 0 /\ t.r1 = t.r2) =>
    /\ t.result.total = 0
    /\ t.result.transferTime = HalfCircularPeriod(t.r1)

\* C24 (as claimed): calculateHohmannTransfer(r, r) gives a total delta-V of
\* 0 and half the circular period at r, and for a fixed r1 the total grows
\* whenever r2 moves further from r1 on the same side.
C24_HohmannAlwaysMonotonic ==
  /\ SameOrbit(transfer.last)
  /\ Further => transfer.last.result.total > transfer.previous.result.total

\* C24 (amended): the same, with the growth limited, for r2 > r1, to
\* r2 <= 15 * r1: beyond about 15.6 * r1 the total falls again.
C24_HohmannMonotonic ==
  /\ SameOrbit(transfer.last)
  /\ (Further /\ transfer.last.r2 <= 15 * transfer.last.r1)
       => transfer.last.result.total > transfer.previous.result.total

C24_Witness ==
  /\ Further
  /\ transfer.previous.r2 = transfer.previous.r1
  /\ transfer.previous.result.total = 0
  /\ transfer.last.r2 < transfer.last.r1
  /\ transfer.last.result.total > 0

\* C25: an update that starts a burn of duration D > 0 successfully applies
\* the manoeuvre thrust to the acceleration in that update, whatever the tick
\* length: the burn is not completed in the update that started it.
C25_StartedBurnThrusts ==
  [][(/\ CoarseTick
      /\ ignitionsUsed' = ignitionsUsed + 1
      /\ HeadNode.burnDuration > 0) =>
       manoeuvreThrustNode([exec |-> executingManoeuvre',
                            throttle |-> throttle']) = HeadNode.id]_vars

\* C26: executing a manoeuvre consumes propellant: the update that completes
\* a burn (a burn found executing needed fuel, as its duration was positive)
\* leaves systems.propulsion.main.fuel below the load the spacecraft was
\* built with.
C26_BurnConsumesPropellant ==
  [][(Tick /\ Executing /\ ~Executing') => fuel' < DefaultFuel]_vars

\* C27: when the basic spacecraft's fuel has run out while thrusting, the
\* update that finds fuelMass at 0 ends with the engine switched off:
\* engineOn is false and getInfo reports engineStatus 'OFF'.
C27_EngineOffWhenFuelOut ==
  [][\A dt \in BasicTicks, gravity \in GravityChoices :
       (UpdateBasic(dt, gravity) /\ basic.fuelMass = 0) =>
         /\ ~basic'.engineOn
         /\ engineStatus(basic') = "OFF"]_vars

\* the callbacks called by the step, in the order they were called
FiredNow == SubSeq(clock'.fired, Len(clock.fired) + 1, Len(clock'.fired))

InDateOrder(fired) ==
  \A i \in 1..(Len(fired) - 1) : fired[i].date <= fired[i + 1].date

\* events fire only once the date has reached theirs, each at most once, a
\* cancelled one never; a check fires every due event, also behind a
\* callback that throws
EventsFireWhenDue ==
  /\ [](/\ \A i \in 1..Len(clock.fired) :
            /\ clock.fired[i].date <= clock.fired[i].at
            /\ clock.fired[i].key \notin clock.cancelled
        /\ \A i, j \in 1..Len(clock.fired) :
            clock.fired[i].key = clock.fired[j].key => i = j)
  /\ [][\A daysToAdd \in 0..MaxDate :
         (UpdateTime(daysToAdd) /\ ~clock.isPaused) =>
           \A i \in 1..Len(clock'.events) :
             clock'.events[i].date > clock'.currentDate]_vars

\* C28 (as claimed): scheduled events fire only once currentDate has reached
\* their date, each at most once, a cancelled one never and all the due ones
\* also behind a callback that throws; and the callbacks are called in
\* non-decreasing order of their events' dates.
C28_EventsFireInDateOrder ==
  /\ EventsFireWhenDue
  /\ []InDateOrder(clock.fired)

\* C28 (amended): the same, with the order limited to the events that fire
\* in the same check: an event scheduled with a date already passed fires in
\* the next check, after events of later dates that fired before.
C28_EventsFireInOrderPerCheck ==
  /\ EventsFireWhenDue
  /\ [][InDateOrder(FiredNow)]_vars

\* two events of different dates have fired in the same check, the first
\* with a callback that throws, and an event that was due has been cancelled
C28_Witness ==
  /\ Len(clock.fired) = 2
  /\ clock.fired[1].at = clock.fired[2].at
  /\ clock.fired[1].date < clock.fired[2].date
  /\ clock.cancelled # {}
  /\ clock.events = << >>
  /\ clock.nextKey > MaxEvents

\* C29: setPresetSpeed(p) sets timeScale to exactly timeScalePresets[p] for
\* every named preset p, 'realtime' and 'minute' included, and a name that
\* is no preset leaves timeScale unchanged.
C29_PresetSetsTimeScale ==
  [][\A preset \in SpeedNameChoices :
       SetPresetSpeed(preset) =>
         IF preset \in TimeScalePresetNames
         THEN clock'.timeScale = timeScalePresets(preset)
         ELSE clock'.timeScale = clock.timeScale]_vars

\* C30: the clearing step at the start of runAllTests removes every
\* spacecraft present in the simulation: after it sim.spacecraft is empty,
\* for any number of spacecraft it found.
C30_ClearingEmptiesSimulation ==
  sim.cleared >= 0 => sim.spacecraft = << >>

====
